---------------------------- MODULE Spec2Model ----------------------------
(***************************************************************************)
(* A model of millsim: the command builder (machine/actions.rs), the       *)
(* program structurer and executor (machine/program.rs) and the machine    *)
(* simulator (machine/mach.rs).                                            *)
(*                                                                         *)
(* Option<T> is modelled as a sequence of length at most one: None is <<>> *)
(* and Some(v) is <<v>>.  Lengths are integer micrometers.  A Result is    *)
(* modelled by its error message, with Ok for success.                     *)
(***************************************************************************)
EXTENDS Integers, Sequences, FiniteSets, TLC

None == <<>>
Some(v) == <<v>>
IsSome(o) == o # <<>>
IsNone(o) == o = <<>>
Val(o) == o[1]
UnwrapOr(o, d) == IF IsSome(o) THEN o[1] ELSE d

Ok == "Ok"

(***************************************************************************)
(* MachineConfig::default                                                  *)
(***************************************************************************)
SafeZ == 150000
MinSpeed == 500
MaxSpeed == 5000
MinFeed == 10
MaxFeed == 400

\* Machine::choose_tool: Micrometer::from_mm(6.0)
ToolDiameter == 6000

(***************************************************************************)
(* Update::upd on an Option: the value it leaves, and whether it changed.  *)
(***************************************************************************)
Upd(old, other) == IF IsSome(other) THEN other ELSE old

\* Require::prohibit
Prohibit(o, msg) ==
    IF IsSome(o) THEN "Parameter '" \o msg \o "' is dangerous here" ELSE Ok

\* Require::require
Require(o, msg) ==
    IF IsSome(o) THEN Ok ELSE "Required parameter '" \o msg \o "'"

\* The first error of a sequence of checks made in order (the ? operator).
RECURSIVE FirstErr(_)
FirstErr(checks) ==
    IF checks = <<>> THEN Ok
    ELSE IF Head(checks) # Ok THEN Head(checks)
    ELSE FirstErr(Tail(checks))


(***************************************************************************)
(* Values of the enums of machine/actions.rs.  A unit variant is a         *)
(* one-element tuple and a variant with a payload a pair.                   *)
(***************************************************************************)
CallSub(n) == <<"CallSub", n>>
ReturnSub == <<"ReturnSub">>
EndProgram == <<"EndProgram">>

FastLine == <<"FastLine">>
Line == <<"Line">>
CircleCW == <<"CircleCW">>
CircleCCW == <<"CircleCCW">>
ToolChange == <<"ToolChange">>
BuiltinCycle(n) == <<"BuiltinCycle", n>>

SpindleOnCW == <<"SpindleOnCW">>
SpindleOnCCW == <<"SpindleOnCCW">>
SpindleOff == <<"SpindleOff">>

WaterOn == <<"WaterOn">>
WaterOff == <<"WaterOff">>

Absolute == <<"Absolute">>
Relative == <<"Relative">>

\* Command::default
DefaultCommand ==
    [global |-> None, movement |-> None, spindle_action |-> None,
     water_action |-> None, coord_switch |-> None,
     raw_x |-> None, raw_y |-> None, raw_z |-> None, i |-> None, j |-> None,
     speed |-> None, feed |-> None, tool |-> None, n |-> None, p |-> None,
     comment |-> "", raw |-> <<>>]

\* Machine::default; render is whether the machine was given a renderer.
DefaultMachine(render) ==
    [render |-> render, movement |-> None, x |-> None, y |-> None, z |-> None,
     speed |-> None, feed |-> None, tool |-> None,
     spindle_on |-> FALSE, water_on |-> FALSE, relative |-> FALSE]

(***************************************************************************)
(* Micrometer::from_mm(a.to_mm().hypot(b.to_mm())): the distance rounded   *)
(* to the nearest micrometer.  sqrt(k) is never half-way between two       *)
(* integers for an integer k, so the rounding is the n with                *)
(* (2n-1)^2 <= 4k < (2n+1)^2.                                              *)
(***************************************************************************)
Abs(a) == IF a < 0 THEN -a ELSE a

RoundHypot(a, b) ==
    LET k == 4 * (a * a + b * b)
    IN CHOOSE n \in 0..(Abs(a) + Abs(b)) :
           /\ (n = 0 \/ (2 * n - 1) * (2 * n - 1) <= k)
           /\ k < (2 * n + 1) * (2 * n + 1)

(***************************************************************************)
(* Machine::execute_command, in the order of the code.  Every step returns *)
(* the machine as the step leaves it, also when it fails: the code mutates *)
(* self in place and returns early.                                        *)
(***************************************************************************)

\* An end-program gate that forgets the coolant.
EndProgramGateNoCoolant(self, code) ==
    IF code.global = Some(EndProgram)
    THEN IF self.spindle_on THEN "Ending program with spindle on"
         ELSE IF UnwrapOr(self.z, SafeZ) < SafeZ THEN "Ending program with too low Z"
         ELSE Ok
    ELSE Ok

\* An end-program gate that does not look at the height.
EndProgramGateAnyHeight(self, code) ==
    IF code.global = Some(EndProgram)
    THEN IF self.spindle_on THEN "Ending program with spindle on"
         ELSE IF self.water_on THEN "Ending program with coolant on"
         ELSE Ok
    ELSE Ok

\* mach.rs 89-101
EndProgramGate(self, code) ==
    IF code.global = Some(EndProgram)
    THEN IF self.spindle_on THEN "Ending program with spindle on"
         ELSE IF self.water_on THEN "Ending program with coolant on"
         ELSE IF UnwrapOr(self.z, SafeZ) < SafeZ THEN "Ending program with too low Z"
         ELSE Ok
    ELSE Ok

\* A tool-change test that compares the tool numbers.
ToolChangedByNumber(self, code) ==
    IsSome(code.tool) /\ IsSome(self.tool) /\ code.tool # self.tool

\* mach.rs 106-109: tc is read before the tool is updated
ToolChanged(self, code) == IsSome(code.tool) /\ IsSome(self.tool)

\* A modal update that resolves the line in the mode of the line before.
ModalUpdateKeepingMode(self, code) ==
    [self EXCEPT !.speed = Upd(@, code.speed),
                 !.feed = Upd(@, code.feed),
                 !.tool = Upd(@, code.tool)]

\* mach.rs 103-116
ModalUpdate(self, code) ==
    [self EXCEPT !.speed = Upd(@, code.speed),
                 !.feed = Upd(@, code.feed),
                 !.tool = Upd(@, code.tool),
                 !.relative = IF code.coord_switch = Some(Absolute) THEN FALSE
                              ELSE IF code.coord_switch = Some(Relative) THEN TRUE
                              ELSE @]

\* Option::map(|a| a + c)
MapAdd(o, c) == IF IsSome(o) THEN Some(Val(o) + c) ELSE None

\* A resolution that asks for a defined position only when the line has an
\* axis word.
ResolveCoordOfAxes(self, code) ==
    IF self.relative /\ (IsSome(code.raw_x) \/ IsSome(code.raw_y) \/ IsSome(code.raw_z))
    THEN IF IsSome(self.x) /\ IsSome(self.y) /\ IsSome(self.z)
         THEN [err |-> Ok,
               x |-> MapAdd(code.raw_x, Val(self.x)),
               y |-> MapAdd(code.raw_y, Val(self.y)),
               z |-> MapAdd(code.raw_z, Val(self.z))]
         ELSE [err |-> "Relative coordinates can only be used with fully defined position",
               x |-> None, y |-> None, z |-> None]
    ELSE [err |-> Ok, x |-> code.raw_x, y |-> code.raw_y, z |-> code.raw_z]

\* mach.rs 124-142
ResolveCoord(self, code) ==
    IF self.relative
    THEN IF IsSome(self.x) /\ IsSome(self.y) /\ IsSome(self.z)
         THEN [err |-> Ok,
               x |-> MapAdd(code.raw_x, Val(self.x)),
               y |-> MapAdd(code.raw_y, Val(self.y)),
               z |-> MapAdd(code.raw_z, Val(self.z))]
         ELSE [err |-> "Relative coordinates can only be used with fully defined position",
               x |-> None, y |-> None, z |-> None]
    ELSE [err |-> Ok, x |-> code.raw_x, y |-> code.raw_y, z |-> code.raw_z]

\* The five prohibitions of M5 and M9 and of a line without dispatch.
ProhibitAxes(code, coord) ==
    FirstErr(<<Prohibit(coord.x, "X"), Prohibit(coord.y, "Y"), Prohibit(coord.z, "Z"),
               Prohibit(code.i, "I"), Prohibit(code.j, "J")>>)

\* A spindle step that lets an M8 of the same line stand for coolant flow.
SpindleStepSameLineCoolant(self, code, coord, new_move) ==
    IF code.spindle_action = Some(SpindleOnCCW)
    THEN [self |-> self, err |-> "Trying to start spindle backwards"]
    ELSE IF code.spindle_action = Some(SpindleOnCW)
    THEN IF ~self.water_on /\ code.water_action # Some(WaterOn)
         THEN [self |-> self,
               err |-> "Trying to start spindle without ensuring coolant flow"]
         ELSE IF IsNone(self.speed)
         THEN [self |-> self, err |-> "Trying to start spindle without any speed"]
         ELSE [self |-> [self EXCEPT !.spindle_on = TRUE], err |-> Ok]
    ELSE IF code.spindle_action = Some(SpindleOff)
    THEN IF new_move
         THEN [self |-> self, err |-> "Trying to turn off spindle while moving"]
         ELSE IF ProhibitAxes(code, coord) # Ok
         THEN [self |-> self, err |-> ProhibitAxes(code, coord)]
         ELSE [self |-> [self EXCEPT !.spindle_on = FALSE, !.speed = None], err |-> Ok]
    ELSE [self |-> self, err |-> Ok]

\* A spindle step that starts the spindle with no speed given.
SpindleStepAnySpeed(self, code, coord, new_move) ==
    IF code.spindle_action = Some(SpindleOnCCW)
    THEN [self |-> self, err |-> "Trying to start spindle backwards"]
    ELSE IF code.spindle_action = Some(SpindleOnCW)
    THEN IF ~self.water_on
         THEN [self |-> self,
               err |-> "Trying to start spindle without ensuring coolant flow"]
         ELSE [self |-> [self EXCEPT !.spindle_on = TRUE], err |-> Ok]
    ELSE IF code.spindle_action = Some(SpindleOff)
    THEN IF new_move
         THEN [self |-> self, err |-> "Trying to turn off spindle while moving"]
         ELSE IF ProhibitAxes(code, coord) # Ok
         THEN [self |-> self, err |-> ProhibitAxes(code, coord)]
         ELSE [self |-> [self EXCEPT !.spindle_on = FALSE, !.speed = None], err |-> Ok]
    ELSE [self |-> self, err |-> Ok]

\* mach.rs 146-179
SpindleStep(self, code, coord, new_move) ==
    IF code.spindle_action = Some(SpindleOnCCW)
    THEN [self |-> self, err |-> "Trying to start spindle backwards"]
    ELSE IF code.spindle_action = Some(SpindleOnCW)
    THEN IF ~self.water_on
         THEN [self |-> self,
               err |-> "Trying to start spindle without ensuring coolant flow"]
         ELSE IF IsNone(self.speed)
         THEN [self |-> self, err |-> "Trying to start spindle without any speed"]
         ELSE [self |-> [self EXCEPT !.spindle_on = TRUE], err |-> Ok]
    ELSE IF code.spindle_action = Some(SpindleOff)
    THEN IF new_move
         THEN [self |-> self, err |-> "Trying to turn off spindle while moving"]
         ELSE IF ProhibitAxes(code, coord) # Ok
         THEN [self |-> self, err |-> ProhibitAxes(code, coord)]
         ELSE [self |-> [self EXCEPT !.spindle_on = FALSE, !.speed = None], err |-> Ok]
    ELSE [self |-> self, err |-> Ok]

\* A coolant step that does not look at the spindle.
WaterStepAnySpindle(self, code, coord, new_move) ==
    IF code.water_action = Some(WaterOn)
    THEN [self |-> [self EXCEPT !.water_on = TRUE], err |-> Ok]
    ELSE IF code.water_action = Some(WaterOff)
    THEN IF new_move
         THEN [self |-> self, err |-> "Trying to turn off coolant while moving"]
         ELSE IF ProhibitAxes(code, coord) # Ok
         THEN [self |-> self, err |-> ProhibitAxes(code, coord)]
         ELSE [self |-> [self EXCEPT !.water_on = FALSE], err |-> Ok]
    ELSE [self |-> self, err |-> Ok]

\* mach.rs 181-205
WaterStep(self, code, coord, new_move) ==
    IF code.water_action = Some(WaterOn)
    THEN [self |-> [self EXCEPT !.water_on = TRUE], err |-> Ok]
    ELSE IF code.water_action = Some(WaterOff)
    THEN IF new_move
         THEN [self |-> self, err |-> "Trying to turn off coolant while moving"]
         ELSE IF self.spindle_on
         THEN [self |-> self, err |-> "Coolant turned off while spindle still running"]
         ELSE IF ProhibitAxes(code, coord) # Ok
         THEN [self |-> self, err |-> ProhibitAxes(code, coord)]
         ELSE [self |-> [self EXCEPT !.water_on = FALSE], err |-> Ok]
    ELSE [self |-> self, err |-> Ok]

\* A selection that dispatches whenever a movement mode is current.
SelectMoveWhenModal(self, coord, new_move) == self.movement

\* mach.rs 207-209
SelectMove(self, coord, new_move) ==
    IF IsSome(self.movement)
       /\ (new_move \/ IsSome(coord.x) \/ IsSome(coord.y) \/ IsSome(coord.z))
    THEN self.movement
    ELSE None

\* A cut check whose upper feed bound is never tested.
PrepareCutNoMaxFeed(self) ==
    LET speed == UnwrapOr(self.speed, 0)
        feed == UnwrapOr(self.feed, 0)
    IN IF ~self.spindle_on THEN "Trying to cut with spindle off"
       ELSE IF ~self.water_on THEN "Trying to cut without coolant"
       ELSE IF speed < MinSpeed THEN "Speed " \o ToString(speed) \o " is too low"
       ELSE IF speed > MaxSpeed THEN "Speed " \o ToString(speed) \o " is too high"
       ELSE IF feed < MinFeed THEN "Feed " \o ToString(feed) \o " is too low"
       ELSE IF IsNone(self.x) \/ IsNone(self.y) \/ IsNone(self.z)
            THEN "Trying to cut from undefined position"
       ELSE IF IsNone(self.tool) THEN "Trying to cut with no tool"
       ELSE Ok

\* mach.rs 344-378
PrepareCut(self) ==
    LET speed == UnwrapOr(self.speed, 0)
        feed == UnwrapOr(self.feed, 0)
    IN IF ~self.spindle_on THEN "Trying to cut with spindle off"
       ELSE IF ~self.water_on THEN "Trying to cut without coolant"
       ELSE IF speed < MinSpeed THEN "Speed " \o ToString(speed) \o " is too low"
       ELSE IF speed > MaxSpeed THEN "Speed " \o ToString(speed) \o " is too high"
       ELSE IF feed < MinFeed THEN "Feed " \o ToString(feed) \o " is too low"
       ELSE IF feed > MaxFeed THEN "Feed " \o ToString(feed) \o " is too high"
       ELSE IF IsNone(self.x) \/ IsNone(self.y) \/ IsNone(self.z)
            THEN "Trying to cut from undefined position"
       ELSE IF IsNone(self.tool) THEN "Trying to cut with no tool"
       ELSE Ok

\* A line that is handed to the render only when it cuts.
LineCallsCutOnly(self, ty) ==
    IF self.render /\ ty = "Cut" /\ IsSome(self.x) /\ IsSome(self.y) /\ IsSome(self.z)
    THEN <<[op |-> "line_to", tool |-> ToolDiameter, kind |-> ty,
            x |-> Val(self.x), y |-> Val(self.y), z |-> Val(self.z)]>>
    ELSE <<>>

\* A line that is always drawn as a fast one.
LineCallsFast(self, ty) ==
    IF self.render /\ IsSome(self.x) /\ IsSome(self.y) /\ IsSome(self.z)
    THEN <<[op |-> "line_to", tool |-> ToolDiameter, kind |-> "Fast",
            x |-> Val(self.x), y |-> Val(self.y), z |-> Val(self.z)]>>
    ELSE <<>>

\* mach.rs 384-391: the render calls Machine::line makes
LineCalls(self, ty) ==
    IF self.render /\ IsSome(self.x) /\ IsSome(self.y) /\ IsSome(self.z)
    THEN <<[op |-> "line_to", tool |-> ToolDiameter, kind |-> ty,
            x |-> Val(self.x), y |-> Val(self.y), z |-> Val(self.z)]>>
    ELSE <<>>

\* What a dispatch returns: the machine, the error, the render calls made,
\* and whether it cleared bad_tool_change.
Failed(self, err) == [self |-> self, err |-> err, calls |-> <<>>, legit |-> FALSE]
Moved(self, calls) == [self |-> self, err |-> Ok, calls |-> calls, legit |-> FALSE]

\* A first-move check that also accepts a Z above the safe height.
FirstMoveIsSafeOrAbove(z) == z >= SafeZ

\* mach.rs 228: the first movement must be to the safe height exactly
FirstMoveIsSafe(z) == z = SafeZ

\* A fast line that moves at any height while x or y is undefined.
DispatchFastLineAnyHeight(self, code, coord, new_move) ==
    LET pre == FirstErr(<<IF new_move THEN Prohibit(code.tool, "D") ELSE Ok,
                          Prohibit(code.i, "I"), Prohibit(code.j, "J")>>)
    IN IF pre # Ok THEN Failed(self, pre)
       ELSE IF IsNone(self.z)
       THEN LET e == FirstErr(<<Prohibit(coord.x, "X"), Prohibit(coord.y, "Y"),
                                Require(coord.z, "Z")>>)
            IN IF e # Ok THEN Failed(self, e)
               ELSE IF ~FirstMoveIsSafe(Val(coord.z))
               THEN Failed(self, "First movement should be to safe Z height")
               ELSE LET s == [self EXCEPT !.z = coord.z]
                    IN Moved(s, LineCalls(s, "Fast"))
       ELSE LET s == [self EXCEPT !.x = Upd(@, coord.x), !.y = Upd(@, coord.y),
                                  !.z = Upd(@, coord.z)]
            IN Moved(s, LineCalls(s, "Fast"))

\* mach.rs 215-252
DispatchFastLine(self, code, coord, new_move) ==
    LET pre == FirstErr(<<IF new_move THEN Prohibit(code.tool, "D") ELSE Ok,
                          Prohibit(code.i, "I"), Prohibit(code.j, "J")>>)
    IN IF pre # Ok THEN Failed(self, pre)
       ELSE IF IsNone(self.z)
       THEN LET e == FirstErr(<<Prohibit(coord.x, "X"), Prohibit(coord.y, "Y"),
                                Require(coord.z, "Z")>>)
            IN IF e # Ok THEN Failed(self, e)
               ELSE IF ~FirstMoveIsSafe(Val(coord.z))
               THEN Failed(self, "First movement should be to safe Z height")
               ELSE LET s == [self EXCEPT !.z = coord.z]
                    IN Moved(s, LineCalls(s, "Fast"))
       ELSE IF IsNone(self.x) \/ IsNone(self.y)
       THEN LET s1 == [self EXCEPT !.z = Upd(@, coord.z)]
            IN IF Val(s1.z) < SafeZ
               THEN Failed(s1, "Unsafe movement without fully defininig the position")
               ELSE LET s2 == [s1 EXCEPT !.x = Upd(@, coord.x), !.y = Upd(@, coord.y)]
                    IN Moved(s2, LineCalls(s2, "Fast"))
       ELSE LET s == [self EXCEPT !.x = Upd(@, coord.x), !.y = Upd(@, coord.y),
                                  !.z = Upd(@, coord.z)]
            IN Moved(s, LineCalls(s, "Fast"))

\* mach.rs 254-264
DispatchLine(self, code, coord) ==
    LET pre == FirstErr(<<Prohibit(code.tool, "D"), Prohibit(code.i, "I"),
                          Prohibit(code.j, "J"), PrepareCut(self)>>)
    IN IF pre # Ok THEN Failed(self, pre)
       ELSE LET s == [self EXCEPT !.x = Upd(@, coord.x), !.y = Upd(@, coord.y),
                                  !.z = Upd(@, coord.z)]
            IN Moved(s, LineCalls(s, "Cut"))

\* Display for Micrometer (types.rs 65-71): a = self.0 / 1000 and
\* b = (self.0 % 1000).abs(), with Rust's division truncating toward zero.
TruncDiv(a, b) == IF a >= 0 THEN a \div b ELSE -((-a) \div b)
TruncRem(a, b) == a - b * TruncDiv(a, b)
Pad3(b) == IF b < 10 THEN "00" \o ToString(b)
           ELSE IF b < 100 THEN "0" \o ToString(b)
           ELSE ToString(b)
FormatMicrometer(v) == ToString(TruncDiv(v, 1000)) \o "." \o Pad3(Abs(TruncRem(v, 1000)))

\* Text is a sequence of one-character strings.
DigitChars == <<"0", "1", "2", "3", "4", "5", "6", "7", "8", "9">>
IsDigit(c) == \E d \in 1..10 : DigitChars[d] = c
\* The value of a run of digits
RECURSIVE DigitsValue(_)
DigitsValue(s) ==
    IF s = <<>> THEN 0
    ELSE DigitsValue(SubSeq(s, 1, Len(s) - 1)) * 10
         + (CHOOSE d \in 0..9 : DigitChars[d + 1] = s[Len(s)])

\* The number of leading digits
RECURSIVE DigitRun(_)
DigitRun(s) == IF s = <<>> \/ ~IsDigit(Head(s)) THEN 0 ELSE 1 + DigitRun(Tail(s))

\* A run of digits whose value is at most u32::MAX = 4294967295, told from
\* the digits after the leading zeros.
FitsU32(s) ==
    LET zeros == Cardinality({k \in 1..Len(s) : \A h \in 1..k : s[h] = "0"})
        g == SubSeq(s, zeros + 1, Len(s))
        hi == DigitsValue(SubSeq(g, 1, 5))
        lo == DigitsValue(SubSeq(g, 6, 10))
    IN  \/ Len(g) < 10
        \/ Len(g) = 10 /\ (hi < 42949 \/ (hi = 42949 /\ lo <= 67295))

\* nom's u32 (types.rs 8): the longest run of leading digits; an error when
\* there is none or when the value does not fit 32 bits.
U32(input) ==
    LET k == DigitRun(input)
    IN  IF k = 0 \/ ~FitsU32(SubSeq(input, 1, k))
        THEN [ok |-> FALSE, rest |-> input, n |-> 0, len |-> 0]
        ELSE [ok |-> TRUE, rest |-> SubSeq(input, k + 1, Len(input)),
              n |-> DigitsValue(SubSeq(input, 1, k)), len |-> k]

\* types.rs 34-40: the fraction digits scaled to three digits
Decimal(input) ==
    LET r == U32(input)
    IN  IF ~r.ok THEN r
        ELSE [r EXCEPT !.n = IF r.len = 3 THEN r.n
                             ELSE IF r.len <= 2 THEN r.n * 10 ^ (3 - r.len)
                             ELSE r.n \div (10 ^ (r.len - 3))]

\* types.rs 33-56: [ok, rest, um]
MicrometerParse(input) ==
    LET signed == input # <<>> /\ Head(input) \in {"+", "-"}
        negative == signed /\ Head(input) = "-"
        body == IF signed THEN Tail(input) ELSE input
        dotted(s) == s # <<>> /\ Head(s) = "."
        frac == IF dotted(body) THEN Decimal(Tail(body)) ELSE [ok |-> FALSE]
        whole == U32(body)
        tail == IF whole.ok /\ dotted(whole.rest) THEN Decimal(Tail(whole.rest))
                ELSE [ok |-> FALSE]
        done(x, d, rest) ==
            [ok |-> TRUE, rest |-> rest,
             um |-> IF negative THEN -(x * 1000 + d) ELSE x * 1000 + d]
    IN  IF frac.ok THEN done(0, frac.n, frac.rest)
        ELSE IF ~whole.ok THEN [ok |-> FALSE, rest |-> input, um |-> 0]
        ELSE IF tail.ok THEN done(whole.n, tail.n, tail.rest)
        ELSE done(whole.n, 0, whole.rest)

\* The decimal digits of a natural number
RECURSIVE NatChars(_)
NatChars(n) ==
    IF n < 10 THEN <<DigitChars[n + 1]>>
    ELSE NatChars(n \div 10) \o <<DigitChars[(n % 10) + 1]>>

\* types.rs 65-71: the characters Display writes
MicrometerFmt(v) ==
    LET a == TruncDiv(v, 1000)
        b == Abs(TruncRem(v, 1000))
    IN  (IF a < 0 THEN <<"-">> \o NatChars(-a) ELSE NatChars(a))
        \o <<".">>
        \o (IF b < 10 THEN <<"0", "0">> ELSE IF b < 100 THEN <<"0">> ELSE <<>>)
        \o NatChars(b)

\* A circle that compares the distances before rounding them.
CircleExactRadius(self, ty, i, j, x, y) ==
    IF PrepareCut(self) # Ok THEN Failed(self, PrepareCut(self))
    ELSE LET cx == Val(self.x) + i
             cy == Val(self.y) + j
         IN IF (x - cx) * (x - cx) + (y - cy) * (y - cy) # i * i + j * j
            THEN Failed(self, "Circle end point not on the circle")
            ELSE Moved([self EXCEPT !.x = Some(x), !.y = Some(y)],
                       IF self.render
                       THEN <<[op |-> "arc_to", tool |-> ToolDiameter, kind |-> ty,
                               cx |-> cx, cy |-> cy, ex |-> x, ey |-> y]>>
                       ELSE <<>>)

\* mach.rs 393-426
Circle(self, ty, i, j, x, y) ==
    IF PrepareCut(self) # Ok THEN Failed(self, PrepareCut(self))
    ELSE LET start_x == Val(self.x)
             start_y == Val(self.y)
             cx == start_x + i
             cy == start_y + j
             r_mm == RoundHypot(i, j)
         IN IF RoundHypot(x - cx, y - cy) # r_mm
            THEN Failed(self, "Circle end point not on the circle (radius = "
                              \o FormatMicrometer(r_mm) \o ", start at ("
                              \o FormatMicrometer(start_x) \o ", "
                              \o FormatMicrometer(start_y) \o ")")
            ELSE Moved([self EXCEPT !.x = Some(x), !.y = Some(y)],
                       IF self.render
                       THEN <<[op |-> "arc_to", tool |-> ToolDiameter, kind |-> ty,
                               cx |-> cx, cy |-> cy, ex |-> x, ey |-> y]>>
                       ELSE <<>>)

\* mach.rs 266-288
DispatchCircle(self, ty, code, coord) ==
    LET pre == FirstErr(<<Prohibit(code.tool, "D"), Prohibit(coord.z, "Z"),
                          Require(code.i, "I"), Require(code.j, "J"),
                          Require(coord.x, "X"), Require(coord.y, "Y")>>)
    IN IF pre # Ok THEN Failed(self, pre)
       ELSE Circle(self, ty, Val(code.i), Val(code.j), Val(coord.x), Val(coord.y))

\* A tool change that does not look at the height.
DispatchToolChangeAnyHeight(self, code, coord) ==
    LET pre == FirstErr(<<Require(code.tool, "D"), ProhibitAxes(code, coord)>>)
    IN IF pre # Ok THEN Failed(self, pre)
       ELSE IF self.spindle_on \/ self.water_on
       THEN [Failed(self, "Turn off spindle and coolant before performing tool change")
                EXCEPT !.legit = TRUE]
       ELSE [self |-> [self EXCEPT !.spindle_on = FALSE, !.water_on = FALSE,
                                   !.speed = None, !.feed = None,
                                   !.movement = None, !.z = None],
             err |-> Ok, calls |-> <<>>, legit |-> TRUE]

\* mach.rs 290-318
DispatchToolChange(self, code, coord) ==
    LET pre == FirstErr(<<Require(code.tool, "D"), ProhibitAxes(code, coord)>>)
    IN IF pre # Ok THEN Failed(self, pre)
       ELSE IF self.spindle_on \/ self.water_on
       THEN [Failed(self, "Turn off spindle and coolant before performing tool change")
                EXCEPT !.legit = TRUE]
       ELSE IF UnwrapOr(self.z, SafeZ) < SafeZ
       THEN [Failed(self, "Must be high enough to perform tool change")
                EXCEPT !.legit = TRUE]
       ELSE [self |-> [self EXCEPT !.spindle_on = FALSE, !.water_on = FALSE,
                                   !.speed = None, !.feed = None,
                                   !.movement = None, !.z = None],
             err |-> Ok, calls |-> <<>>, legit |-> TRUE]

\* mach.rs 320-327
DispatchBuiltinCycle(self, code) ==
    LET pre == FirstErr(<<Prohibit(code.tool, "D"), PrepareCut(self)>>)
    IN IF pre # Ok THEN Failed(self, pre)
       ELSE Moved([self EXCEPT !.movement = None], <<>>)

\* mach.rs 213-335: the match on mv, and the else branch without dispatch
Dispatch(self, code, coord, new_move, mv) ==
    IF mv = None
    THEN [self |-> self, err |-> ProhibitAxes(code, coord), calls |-> <<>>,
          legit |-> FALSE]
    ELSE IF Val(mv) = FastLine THEN DispatchFastLine(self, code, coord, new_move)
    ELSE IF Val(mv) = Line THEN DispatchLine(self, code, coord)
    ELSE IF Val(mv) = CircleCW THEN DispatchCircle(self, "Cw", code, coord)
    ELSE IF Val(mv) = CircleCCW THEN DispatchCircle(self, "Ccw", code, coord)
    ELSE IF Val(mv) = ToolChange THEN DispatchToolChange(self, code, coord)
    ELSE DispatchBuiltinCycle(self, code)

\* What execute_command returns: the machine as it is left, the error (Ok
\* for Ok(())), the render calls made, and mv, the movement dispatched.
Returned(self, err, calls, mv) == [self |-> self, err |-> err, calls |-> calls, mv |-> mv]

\* mach.rs 88-342
ExecuteCommand(self, code) ==
    IF EndProgramGate(self, code) # Ok
    THEN Returned(self, EndProgramGate(self, code), <<>>, None)
    ELSE
    LET tool_changed == ToolChanged(self, code)
        s1 == ModalUpdate(self, code)
        coord == ResolveCoord(s1, code)
    IN IF coord.err # Ok THEN Returned(s1, coord.err, <<>>, None)
       ELSE
       LET new_move == IsSome(code.movement)
           s2 == [s1 EXCEPT !.movement = Upd(@, code.movement)]
           sp == SpindleStep(s2, code, coord, new_move)
       IN IF sp.err # Ok THEN Returned(sp.self, sp.err, <<>>, None)
          ELSE
          LET wt == WaterStep(sp.self, code, coord, new_move)
          IN IF wt.err # Ok THEN Returned(wt.self, wt.err, <<>>, None)
             ELSE
             LET mv == SelectMove(wt.self, coord, new_move)
                 d == Dispatch(wt.self, code, coord, new_move, mv)
             IN IF d.err # Ok THEN Returned(d.self, d.err, d.calls, mv)
                ELSE IF tool_changed /\ ~d.legit
                THEN Returned(d.self, "Tool change without stopping", d.calls, mv)
                ELSE Returned(d.self, Ok, d.calls, mv)

(***************************************************************************)
(* The command builder (machine/actions.rs).  A word of gcode/words.rs is  *)
(* the pair of its letter and its value: <<"G", 0>>, <<"X", 1000>>; an R   *)
(* word holds its parameter and its length, a comment its text.            *)
(***************************************************************************)
\* A classification that takes L80 for a subprogram call.
IsBuiltinAbove(l) == l > 80

\* actions.rs 38-40
IsBuiltin(l) == l >= 80

\* Display of the enums of actions.rs (strum serialize)
Display(v) ==
    CASE v[1] = "CallSub" -> "L (subroutine call)"
      [] v = ReturnSub -> "M17 (subroutine return)"
      [] v = EndProgram -> "M2 (program end)"
      [] v = FastLine -> "G0 (fast move)"
      [] v = Line -> "G1 (linear move)"
      [] v = CircleCW -> "G2 (circular move CW)"
      [] v = CircleCCW -> "G3 (circular move CCW)"
      [] v = ToolChange -> "M6 (tool change)"
      [] v[1] = "BuiltinCycle" -> "L (builtin subroutine)"
      [] v = SpindleOnCW -> "M3 (spindle on CW)"
      [] v = SpindleOnCCW -> "M4 (spindle on CCW)"
      [] v = SpindleOff -> "M5 (spindle off)"
      [] v = WaterOn -> "M8 (coolant on)"
      [] v = WaterOff -> "M9 (coolant off)"
      [] v = Absolute -> "G90 (absolute coordinates)"
      [] v = Relative -> "G91 (relative coordinates)"

\* Display of the value of the slot f: a Micrometer for the lengths, an
\* integer (u8, u16, u32) for the other scalars, an enum for the rest
DisplaySlot(f, v) ==
    IF f \in {"raw_x", "raw_y", "raw_z", "i", "j"} THEN FormatMicrometer(v)
    ELSE IF f \in {"speed", "feed", "tool", "n", "p"} THEN ToString(v)
    ELSE Display(v)

\* actions.rs 103-113: SetOrError::set on the slot f of cmd
Set(cmd, f, value) ==
    IF IsNone(cmd[f])
    THEN [cmd |-> [cmd EXCEPT ![f] = Some(value)], err |-> Ok]
    ELSE [cmd |-> cmd,
          err |-> "Double command: '" \o DisplaySlot(f, Val(cmd[f])) \o "' and '"
                  \o DisplaySlot(f, value) \o "'"]

\* setn that lets a word repeat the value the slot already holds
SetNIgnoringRepeat(cmd, f, name, value) ==
    IF IsNone(cmd[f]) \/ cmd[f] = Some(value)
    THEN [cmd |-> [cmd EXCEPT ![f] = Some(value)], err |-> Ok]
    ELSE [cmd |-> cmd,
          err |-> "Double '" \o name \o "' command: '" \o DisplaySlot(f, Val(cmd[f])) \o "' and '"
                  \o DisplaySlot(f, value) \o "'"]

\* actions.rs 115-125: SetOrError::setn on the slot f of cmd
SetN(cmd, f, name, value) ==
    IF IsNone(cmd[f])
    THEN [cmd |-> [cmd EXCEPT ![f] = Some(value)], err |-> Ok]
    ELSE [cmd |-> cmd,
          err |-> "Double '" \o name \o "' command: '" \o DisplaySlot(f, Val(cmd[f])) \o "' and '"
                  \o DisplaySlot(f, value) \o "'"]

\* actions.rs 52-90: the match on one word, after it is pushed to raw
ApplyWord(cmd, word) ==
    LET l == word[1]
        v == word[2]
    IN IF l = "L" THEN IF IsBuiltin(v) THEN Set(cmd, "movement", BuiltinCycle(v))
                       ELSE Set(cmd, "global", CallSub(v))
       ELSE IF l = "N" THEN SetN(cmd, "n", "N[umber]", v)
       ELSE IF l = "Comment" THEN [cmd |-> [cmd EXCEPT !.comment = @ \o v], err |-> Ok]
       ELSE IF l = "R" THEN [cmd |-> cmd, err |-> Ok]
       ELSE IF l = "M" THEN
            IF v = 2 THEN Set(cmd, "global", EndProgram)
            ELSE IF v = 17 THEN Set(cmd, "global", ReturnSub)
            ELSE IF v = 6 THEN Set(cmd, "movement", ToolChange)
            ELSE IF v = 3 THEN Set(cmd, "spindle_action", SpindleOnCW)
            ELSE IF v = 4 THEN Set(cmd, "spindle_action", SpindleOnCCW)
            ELSE IF v = 5 THEN Set(cmd, "spindle_action", SpindleOff)
            ELSE IF v = 8 THEN Set(cmd, "water_action", WaterOn)
            ELSE Set(cmd, "water_action", WaterOff)
       ELSE IF l = "G" THEN
            IF v = 0 THEN Set(cmd, "movement", FastLine)
            ELSE IF v = 1 THEN Set(cmd, "movement", Line)
            ELSE IF v = 2 THEN Set(cmd, "movement", CircleCW)
            ELSE IF v = 3 THEN Set(cmd, "movement", CircleCCW)
            ELSE IF v = 90 THEN Set(cmd, "coord_switch", Absolute)
            ELSE Set(cmd, "coord_switch", Relative)
       ELSE IF l = "S" THEN SetN(cmd, "speed", "S[peed]", v)
       ELSE IF l = "F" THEN SetN(cmd, "feed", "F[eed]", v)
       ELSE IF l = "D" THEN SetN(cmd, "tool", "D (tool)", v)
       ELSE IF l = "X" THEN SetN(cmd, "raw_x", "X", v)
       ELSE IF l = "Y" THEN SetN(cmd, "raw_y", "Y", v)
       ELSE IF l = "Z" THEN SetN(cmd, "raw_z", "Z", v)
       ELSE IF l = "I" THEN SetN(cmd, "i", "I (center X)", v)
       ELSE IF l = "J" THEN SetN(cmd, "j", "J (center Y)", v)
       ELSE SetN(cmd, "p", "P (repeat count)", v)

\* actions.rs 43-94: the loop over the words; it stops at the first error
RECURSIVE FromGcodeFrom(_, _)
FromGcodeFrom(cmd, gcode) ==
    IF gcode = <<>> THEN [cmd |-> cmd, err |-> Ok]
    ELSE LET pushed == [cmd EXCEPT !.raw = Append(@, Head(gcode))]
             r == ApplyWord(pushed, Head(gcode))
         IN IF r.err # Ok THEN r ELSE FromGcodeFrom(r.cmd, Tail(gcode))

FromGcode(gcode) == FromGcodeFrom(DefaultCommand, gcode)

(***************************************************************************)
(* Errors (gcode/errors.rs).  A LineError is a record of the message and   *)
(* the optional line; functions that return Result<_, LineError> return    *)
(* None for Ok and Some(error) for Err.                                    *)
(***************************************************************************)
\* at_line given the index of the line counted from 0
AtLineFromZero(error, line) == [error |-> error, line |-> Some(line - 1)]

\* errors.rs 11-13
AtLine(error, line) == [error |-> error, line |-> Some(line)]
\* errors.rs 16-18
NoLine(error) == [error |-> error, line |-> None]

(***************************************************************************)
(* The file loader (gcode/file.rs).  A line of the text is what            *)
(* Line::parse makes of it: <<"Empty">>, <<"MainProgram", n>>,             *)
(* <<"SubProgram", n>>, <<"Code", words>>, or <<"ParseError", message>>;   *)
(* <<"IoError", message>> is a line that could not be read.  Unreadable   *)
(* stands for the text of a path that File::open refuses.                  *)
(***************************************************************************)
Unreadable == << <<"OpenError", "No such file or directory (os error 2)">> >>

\* file.rs 21-38
Load(text) ==
    IF text = Unreadable
    THEN [err |-> Some(NoLine("Can't open file: " \o text[1][2])), code |-> <<>>]
    ELSE LET bad == { no \in DOMAIN text : text[no][1] \in {"ParseError", "IoError"} }
         IN IF bad = {} THEN [err |-> None, code |-> text]
            ELSE LET no == CHOOSE k \in bad : \A q \in bad : k <= q
                 IN [err |-> Some(AtLine(IF text[no][1] = "IoError"
                                         THEN "I/O error " \o text[no][2]
                                         ELSE text[no][2], no)),
                     code |-> <<>>]

(***************************************************************************)
(* The structurer (machine/program.rs).  A CodeLine is [file_line, words], *)
(* a CodeBlock [file_line, code], a BTreeMap<u8, CodeBlock> a function on  *)
(* the ids it holds.                                                       *)
(***************************************************************************)
\* Word::is_executable: Comment and N are not executable, all others are
IsExecutable(word) == word[1] \notin {"Comment", "N"}

\* program.rs 17-21
ExecutableCode(line) == SelectSeq(line.words, IsExecutable)

EmptyProgram == [main_programs |-> <<>>, sub_programs |-> <<>>]

\* program.rs 43-78: the loop of from_file from line file_line on; st holds
\* the cursor `program`, the two maps and def_line
RECURSIVE Ingest(_, _, _)
Ingest(file, file_line, st) ==
    IF file_line > Len(file) THEN st
    ELSE LET code_line == file[file_line]
         IN IF code_line[1] = "Empty" THEN Ingest(file, file_line + 1, st)
            ELSE IF code_line[1] = "MainProgram"
            THEN Ingest(file, file_line + 1,
                        [st EXCEPT !.def_line = file_line,
                                   !.program = <<"Main", code_line[2]>>])
            ELSE IF code_line[1] = "SubProgram"
            THEN Ingest(file, file_line + 1,
                        [st EXCEPT !.def_line = file_line,
                                   !.program = <<"Sub", code_line[2]>>])
            ELSE IF st.program = <<"Unknown">>
            THEN [st EXCEPT !.err = Some(AtLine("Code line with no program", file_line))]
            ELSE LET map == IF st.program[1] = "Main" THEN "main_programs"
                            ELSE "sub_programs"
                     n == st.program[2]
                     entry == IF n \in DOMAIN st[map] THEN st[map][n]
                              ELSE [file_line |-> st.def_line, code |-> <<>>]
                     code == [file_line |-> file_line, words |-> code_line[2]]
                 IN Ingest(file, file_line + 1,
                           [st EXCEPT ![map] =
                               (n :> [entry EXCEPT !.code = Append(@, code)]) @@ @])

\* program.rs 264-270: the executable words of the last line that has any
RECURSIVE LastExecutable(_)
LastExecutable(code) ==
    IF code = <<>> THEN None
    ELSE LET c == ExecutableCode(code[Len(code)])
         IN IF c = <<>> THEN LastExecutable(SubSeq(code, 1, Len(code) - 1))
            ELSE Some(c)

\* check_last_executable that looks at the last line of the block only
CheckLastLineOnly(programs, ty) ==
    LET w == IF ty = "Main" THEN <<"M", 2>> ELSE <<"M", 17>>
        bad == { p \in DOMAIN programs :
                    \/ programs[p].code = <<>>
                    \/ ExecutableCode(programs[p].code[Len(programs[p].code)]) # <<w>> }
    IN IF bad = {} THEN None
       ELSE LET p == CHOOSE k \in bad : \A q \in bad : k <= q
            IN Some(AtLine((IF ty = "Main" THEN "Main program" ELSE "Subprogram")
                           \o " #" \o ToString(p) \o " does not end with "
                           \o (IF ty = "Main" THEN "M2" ELSE "M17"),
                           programs[p].file_line))

\* program.rs 259-282, with final_word (238-246) and the Display of
\* ProgramType (248-257); the map is walked in the order of its keys
CheckLastExecutable(programs, ty) ==
    LET w == IF ty = "Main" THEN <<"M", 2>> ELSE <<"M", 17>>
        bad == { p \in DOMAIN programs : LastExecutable(programs[p].code) # Some(<<w>>) }
    IN IF bad = {} THEN None
       ELSE LET p == CHOOSE k \in bad : \A q \in bad : k <= q
            IN Some(AtLine((IF ty = "Main" THEN "Main program" ELSE "Subprogram")
                           \o " #" \o ToString(p) \o " does not end with "
                           \o (IF ty = "Main" THEN "M2" ELSE "M17"),
                           programs[p].file_line))

\* A structurer that drops the code lines before the first header.
FromFileDroppingOrphans(file) ==
    LET st == Ingest(file, 1, [program |-> <<"Unknown">>, main_programs |-> <<>>,
                               sub_programs |-> <<>>, def_line |-> 0, err |-> None])
        rest == IF IsSome(st.err)
                THEN Ingest(SubSeq(file, Val(Val(st.err).line) + 1, Len(file)), 1,
                            [st EXCEPT !.err = None])
                ELSE st
        program == [main_programs |-> rest.main_programs, sub_programs |-> rest.sub_programs]
    IN IF IsSome(rest.err) THEN [err |-> rest.err, program |-> EmptyProgram]
       ELSE IF IsSome(CheckLastExecutable(rest.main_programs, "Main"))
       THEN [err |-> CheckLastExecutable(rest.main_programs, "Main"), program |-> EmptyProgram]
       ELSE IF IsSome(CheckLastExecutable(rest.sub_programs, "Sub"))
       THEN [err |-> CheckLastExecutable(rest.sub_programs, "Sub"), program |-> EmptyProgram]
       ELSE [err |-> None, program |-> program]

\* A structurer that checks the terminators of the main programs only.
FromFileCheckingMains(file) ==
    LET st == Ingest(file, 1, [program |-> <<"Unknown">>, main_programs |-> <<>>,
                               sub_programs |-> <<>>, def_line |-> 0, err |-> None])
        program == [main_programs |-> st.main_programs, sub_programs |-> st.sub_programs]
    IN IF IsSome(st.err) THEN [err |-> st.err, program |-> EmptyProgram]
       ELSE IF IsSome(CheckLastExecutable(st.main_programs, "Main"))
       THEN [err |-> CheckLastExecutable(st.main_programs, "Main"), program |-> EmptyProgram]
       ELSE [err |-> None, program |-> program]

\* program.rs 37-87
FromFile(file) ==
    LET st == Ingest(file, 1, [program |-> <<"Unknown">>, main_programs |-> <<>>,
                               sub_programs |-> <<>>, def_line |-> 0, err |-> None])
        program == [main_programs |-> st.main_programs, sub_programs |-> st.sub_programs]
    IN IF IsSome(st.err) THEN [err |-> st.err, program |-> EmptyProgram]
       ELSE IF IsSome(CheckLastExecutable(st.main_programs, "Main"))
       THEN [err |-> CheckLastExecutable(st.main_programs, "Main"), program |-> EmptyProgram]
       ELSE IF IsSome(CheckLastExecutable(st.sub_programs, "Sub"))
       THEN [err |-> CheckLastExecutable(st.sub_programs, "Sub"), program |-> EmptyProgram]
       ELSE [err |-> None, program |-> program]

(***************************************************************************)
(* The executor (machine/program.rs).  A StackItem is                      *)
(* [repeats, code, full_code]; the last item of the stack is its top.      *)
(***************************************************************************)
\* program.rs 112-120
StackItem(code, repeats) == [repeats |-> repeats, code |-> code, full_code |-> code]

\* A selection that takes, with no id, the main program of the block that
\* comes first in the file.
ProgramExecuteFirstBlock(program, idx) ==
    LET mains == program.main_programs
    IN IF IsSome(idx) /\ Val(idx) \notin DOMAIN mains
       THEN [err |-> "Program %" \o ToString(Val(idx)) \o " not found", stack |-> <<>>]
       ELSE IF IsNone(idx) /\ DOMAIN mains = {}
       THEN [err |-> "No main programs found", stack |-> <<>>]
       ELSE LET k == IF IsSome(idx) THEN Val(idx)
                     ELSE CHOOSE m \in DOMAIN mains :
                              \A q \in DOMAIN mains : mains[m].file_line <= mains[q].file_line
            IN [err |-> Ok, stack |-> <<StackItem(mains[k].code, 0)>>]

\* program.rs 89-103 with Executor::start (130-135); err is a SimpleError
ProgramExecute(program, idx) ==
    LET mains == program.main_programs
    IN IF IsSome(idx) /\ Val(idx) \notin DOMAIN mains
       THEN [err |-> "Program %" \o ToString(Val(idx)) \o " not found", stack |-> <<>>]
       ELSE IF IsNone(idx) /\ DOMAIN mains = {}
       THEN [err |-> "No main programs found", stack |-> <<>>]
       ELSE LET k == IF IsSome(idx) THEN Val(idx)
                     ELSE CHOOSE m \in DOMAIN mains : \A q \in DOMAIN mains : m <= q
            IN [err |-> Ok, stack |-> <<StackItem(mains[k].code, 0)>>]

\* a return that never starts another pass
ReturnSubOnce(stack) ==
    IF Len(stack) <= 1
    THEN [stack |-> stack, err |-> "Subroutine return (M17) without subroutine call"]
    ELSE IF stack[Len(stack)].code # <<>>
    THEN [stack |-> stack, err |-> "Subroutine return (M17) is not the last statement"]
    ELSE [stack |-> SubSeq(stack, 1, Len(stack) - 1), err |-> Ok]

\* A return that starts the next pass in a frame of its own, above the
\* frame of the pass that has ended.
ExecReturnSubStacking(stack) ==
    IF Len(stack) <= 1
    THEN [stack |-> stack, err |-> "Subroutine return (M17) without subroutine call"]
    ELSE IF stack[Len(stack)].code # <<>>
    THEN [stack |-> stack, err |-> "Subroutine return (M17) is not the last statement"]
    ELSE LET p == stack[Len(stack)]
         IN [stack |-> IF p.repeats > 0
                       THEN Append(stack, StackItem(p.full_code, p.repeats - 1))
                       ELSE SubSeq(stack, 1, Len(stack) - 1),
             err |-> Ok]

\* A return that starts another pass without counting it.
ExecReturnSubForever(stack) ==
    IF Len(stack) <= 1
    THEN [stack |-> stack, err |-> "Subroutine return (M17) without subroutine call"]
    ELSE IF stack[Len(stack)].code # <<>>
    THEN [stack |-> stack, err |-> "Subroutine return (M17) is not the last statement"]
    ELSE LET p == stack[Len(stack)]
             popped == SubSeq(stack, 1, Len(stack) - 1)
         IN [stack |-> IF p.repeats > 0
                       THEN Append(popped, StackItem(p.full_code, p.repeats))
                       ELSE popped,
             err |-> Ok]

\* program.rs 153-176
ExecReturnSub(stack) ==
    IF Len(stack) <= 1
    THEN [stack |-> stack, err |-> "Subroutine return (M17) without subroutine call"]
    ELSE IF stack[Len(stack)].code # <<>>
    THEN [stack |-> stack, err |-> "Subroutine return (M17) is not the last statement"]
    ELSE LET p == stack[Len(stack)]
             popped == SubSeq(stack, 1, Len(stack) - 1)
         IN [stack |-> IF p.repeats > 0
                       THEN Append(popped, StackItem(p.full_code, p.repeats - 1))
                       ELSE popped,
             err |-> Ok]

\* An end of program that does not look at the depth of the stack.
ExecEndProgramAnyDepth(stack) ==
    IF stack[Len(stack)].code # <<>>
    THEN [stack |-> stack, err |-> "Program end (M2) is not the last statement"]
    ELSE [stack |-> stack, err |-> Ok]

\* program.rs 177-193
ExecEndProgram(stack) ==
    IF Len(stack) > 1
    THEN [stack |-> stack, err |-> "Program end (M2) in a subroutine"]
    ELSE IF stack[Len(stack)].code # <<>>
    THEN [stack |-> stack, err |-> "Program end (M2) is not the last statement"]
    ELSE [stack |-> stack, err |-> Ok]

\* A call that asks for P before it looks the subprogram up.
ExecCallSubRepeatsFirst(stack, sub_programs, cmd, n) ==
    IF IsNone(cmd.p)
    THEN [stack |-> stack,
          err |-> "Repeats count for subroutine L" \o ToString(n) \o " not defined"]
    ELSE IF n \notin DOMAIN sub_programs
    THEN [stack |-> stack, err |-> "Subroutine L" \o ToString(n) \o " not found"]
    ELSE [stack |-> Append(stack, StackItem(sub_programs[n].code, Val(cmd.p))),
          err |-> Ok]

\* program.rs 142-152
ExecCallSub(stack, sub_programs, cmd, n) ==
    IF n \notin DOMAIN sub_programs
    THEN [stack |-> stack, err |-> "Subroutine L" \o ToString(n) \o " not found"]
    ELSE IF IsNone(cmd.p)
    THEN [stack |-> stack,
          err |-> "Repeats count for subroutine L" \o ToString(n) \o " not defined"]
    ELSE [stack |-> Append(stack, StackItem(sub_programs[n].code, Val(cmd.p))),
          err |-> Ok]

\* program.rs 137-198
Exec(stack, sub_programs, line) ==
    LET b == FromGcode(line.words)
        r == IF b.err # Ok THEN [stack |-> stack, err |-> b.err]
             ELSE IF IsNone(b.cmd.global) THEN [stack |-> stack, err |-> Ok]
             ELSE IF Val(b.cmd.global) = ReturnSub THEN ExecReturnSub(stack)
             ELSE IF Val(b.cmd.global) = EndProgram THEN ExecEndProgram(stack)
             ELSE ExecCallSub(stack, sub_programs, b.cmd, Val(b.cmd.global)[2])
    IN [stack |-> r.stack, err |-> r.err, cmd |-> b.cmd]

\* program.rs 201-218 with take_first (225-232): None when the top frame
\* has no line left, else the item [line, err, cmd] for Ok((line, cmd)) or
\* for Err(err.at_line(line))
IteratorNext(stack, sub_programs) ==
    LET top == Len(stack)
    IN IF stack[top].code = <<>> THEN [stack |-> stack, item |-> None]
       ELSE LET code == Head(stack[top].code)
                r == Exec([stack EXCEPT ![top].code = Tail(@)], sub_programs, code)
            IN [stack |-> r.stack,
                item |-> Some([line |-> code.file_line, err |-> r.err, cmd |-> r.cmd])]

(***************************************************************************)
(* The SVG render (render/svg.rs), as far as the machine can tell: the     *)
(* position it keeps, and whether arc_to has found none.                   *)
(***************************************************************************)
\* svg.rs 20-27
SvgNew == [position |-> None, panicked |-> FALSE]

\* svg.rs 52-68: line_to stores the point
SvgLineTo(render, call) == [render EXCEPT !.position = Some(<<call.x, call.y>>)]

\* svg.rs 70-78 and 125: arc_to expects a position and stores the end point
SvgArcTo(render, call) ==
    IF IsNone(render.position) THEN [render EXCEPT !.panicked = TRUE]
    ELSE [render EXCEPT !.position = Some(<<call.ex, call.ey>>)]

\* The calls of one command, in their order
RECURSIVE SvgCalls(_, _)
SvgCalls(render, calls) ==
    IF calls = <<>> THEN render
    ELSE SvgCalls(IF Head(calls).op = "line_to" THEN SvgLineTo(render, Head(calls))
                  ELSE SvgArcTo(render, Head(calls)),
                  Tail(calls))

(***************************************************************************)
(* The machine driven by arbitrary commands.                               *)
(***************************************************************************)
VARIABLES
    mach,     \* the Machine of machine/mach.rs
    gcode,    \* the words handed to Command::from_gcode
    built,    \* its result, once it has run
    text,     \* the lines of the file at the path given to run
    file,     \* the GCodeFile loaded from it
    program,  \* the Program structured from the file
    stack,    \* the stack of the Executor
    item,     \* what Executor::next returned last
    failure,  \* the LineError run returned, if it did
    pc,       \* the stage run is at
    trace,    \* the items Executor::next has yielded: [line, err]
    drawn,    \* the calls the renderer of the run has received
    svg,      \* the Svg render: its position, and whether arc_to has panicked
    exited,   \* what main left when it returned: the exit code and the error
              \* it printed, if any
    conv      \* a Micrometer conversion: the text, what parse left and gave,
              \* the text Display wrote, and what parse gives for that text

vars == <<mach, gcode, built, text, file, program, stack, item, failure, pc, trace, drawn, svg,
          exited, conv>>

cmdVars == <<gcode, built>>
runVars == <<text, file, program, stack, item, failure, pc, trace, drawn, svg, exited>>

CmdIdle == gcode = <<>> /\ built = None
ConvIdle ==
    [pc |-> "idle", input |-> <<>>, rest |-> <<>>, um |-> None, shown |-> <<>>, back |-> None]
RunIdle ==
    /\ text = <<>> /\ file = <<>> /\ program = EmptyProgram /\ stack = <<>>
    /\ item = None /\ failure = None /\ pc = "idle" /\ trace = <<>>
    /\ drawn = <<>> /\ svg = SvgNew /\ exited = None

\* The sequences of at most n elements of S
SeqsUpTo(S, n) == UNION { [1..k -> S] : k \in 0..n }

\* The positions explored: x within 0..MaxX, y within 0..MaxY, z within
\* MaxDz of SafeZ.
MaxX == 1
MaxY == 0
MaxDz == 1

\* The values tried in each slot of a line that drives the machine.
DriveValues ==
    [global |-> {EndProgram},
     movement |-> {FastLine, Line, CircleCW, CircleCCW, ToolChange, BuiltinCycle(80)},
     spindle_action |-> {SpindleOnCW, SpindleOnCCW, SpindleOff},
     water_action |-> {WaterOn, WaterOff},
     coord_switch |-> {Absolute, Relative},
     raw_x |-> 0..MaxX,
     raw_y |-> 0..MaxY,
     raw_z |-> {-1} \cup ((SafeZ - MaxDz)..(SafeZ + MaxDz)),
     i |-> {-1, 1},
     j |-> {0},
     speed |-> {MinSpeed - 1, MinSpeed},
     feed |-> {MinFeed},
     tool |-> {1}]

\* The values tried in each slot of a line a state is probed with.
ProbeValues ==
    [DriveValues EXCEPT !.tool = {1, 2},
                        !.global = {EndProgram, ReturnSub},
                        !.speed = @ \cup {MaxSpeed, MaxSpeed + 1},
                        !.feed = @ \cup {MinFeed - 1, MaxFeed, MaxFeed + 1}]

Slots == DOMAIN DriveValues

\* The commands that fill exactly the slots of S with the values of V.
RECURSIVE CommandsFilling(_, _)
CommandsFilling(S, V) ==
    IF S = {} THEN {DefaultCommand}
    ELSE LET s == CHOOSE t \in S : TRUE
         IN {[c EXCEPT ![s] = Some(v)] : c \in CommandsFilling(S \ {s}, V), v \in V[s]}

\* The lines that drive the machine: every line of one word, the tool
\* changes M6 D, and the arc lines X Y I J with or without G2/G3.
OneWord == UNION {CommandsFilling({s}, DriveValues) : s \in Slots}
ToolChanges ==
    {c \in CommandsFilling({"movement", "tool"}, DriveValues) : c.movement = Some(ToolChange)}
ArcTargets == CommandsFilling({"raw_x", "raw_y", "i", "j"}, DriveValues)
Arcs ==
    ArcTargets \cup {[c EXCEPT !.movement = Some(m)] : c \in ArcTargets, m \in {CircleCW, CircleCCW}}
Commands == {DefaultCommand} \cup OneWord \cup ToolChanges \cup Arcs

\* The lines every state is probed with: the driving lines and every line of
\* one or two words.
Probes ==
    Commands \cup UNION {CommandsFilling(S, ProbeValues) :
                            S \in {T \in SUBSET Slots : Cardinality(T) \in {1, 2}}}

\* A command is tried when the targets it resolves to lie in the explored box.
Within(o, lo, hi) == IF IsNone(o) THEN TRUE ELSE lo <= Val(o) /\ Val(o) <= hi

InBox(self, code) ==
    LET coord == ResolveCoord(ModalUpdate(self, code), code)
    IN /\ Within(coord.x, 0, MaxX)
       /\ Within(coord.y, 0, MaxY)
       /\ Within(coord.z, SafeZ - MaxDz, SafeZ + MaxDz)

MachInit == mach = DefaultMachine(TRUE) /\ CmdIdle /\ conv = ConvIdle /\ RunIdle

Execute(code) ==
    /\ InBox(mach, code)
    /\ mach' = ExecuteCommand(mach, code).self
    /\ UNCHANGED <<cmdVars, conv, runVars>>

MachNext == \E code \in Commands : Execute(code)

SpecMach == MachInit /\ [][MachNext]_vars

\* The machine as the run drives it: the line that fails ends the run, so a
\* line is executed only in a state that successful lines have led to.
ExecuteNext(code) ==
    /\ InBox(mach, code)
    /\ \E r \in {ExecuteCommand(mach, code)} :
          /\ r.err = Ok
          /\ mach' = r.self
    /\ UNCHANGED <<cmdVars, conv, runVars>>

\* The lines of a movement word and one of X, Y, Z
Moves ==
    UNION {CommandsFilling({"movement", s}, DriveValues) : s \in {"raw_x", "raw_y", "raw_z"}}

MachRunNext == \E code \in Commands \cup Moves : ExecuteNext(code)

SpecMachRun == MachInit /\ [][MachRunNext]_vars

\* The machine with an Svg render, driven by arbitrary commands; a render
\* that has panicked has ended the process.
ExecuteDrawing(code) ==
    /\ InBox(mach, code)
    /\ ~svg.panicked
    /\ \E r \in {ExecuteCommand(mach, code)} :
          /\ mach' = r.self
          /\ svg' = SvgCalls(svg, r.calls)
    /\ UNCHANGED <<cmdVars, conv, text, file, program, stack, item, failure, pc, trace,
                   drawn, exited>>

DrawNext == \E code \in Commands : ExecuteDrawing(code)

SpecDraw == MachInit /\ [][DrawNext]_vars

(***************************************************************************)
(* The command builder applied to one line of words.                       *)
(***************************************************************************)
MaxWords == 3

\* The words a line is drawn from: every slot has two different words, the
\* scalar slots N and X have two values.
Alphabet ==
    { <<"G", 0>>, <<"G", 1>>, <<"G", 90>>, <<"G", 91>>,
      <<"M", 2>>, <<"M", 17>>, <<"M", 3>>, <<"M", 5>>, <<"M", 6>>, <<"M", 8>>, <<"M", 9>>,
      <<"L", 7>>, <<"L", 80>>, <<"N", 1>>, <<"N", 2>>, <<"S", MinSpeed>>, <<"F", MinFeed>>,
      <<"D", 1>>, <<"X", 0>>, <<"X", 1000>>, <<"Y", 0>>, <<"Z", SafeZ>>, <<"I", 0>>,
      <<"J", -420>>, <<"P", 1>>, <<"R", 1, 0>>, <<"Comment", "a">> }

CmdInit ==
    /\ gcode \in SeqsUpTo(Alphabet, MaxWords)
    /\ built = None
    /\ conv = ConvIdle
    /\ mach = DefaultMachine(TRUE)
    /\ RunIdle

Build ==
    /\ built = None
    /\ built' = Some(FromGcode(gcode))
    /\ UNCHANGED <<gcode, conv, mach, runVars>>

SpecCmd == CmdInit /\ [][Build]_vars

(***************************************************************************)
(* The structurer applied to a file.                                       *)
(***************************************************************************)
MaxLines == 4

\* The lines a file is drawn from: headers of two main programs and of a
\* subprogram with the id of one of them, and code lines with and without
\* executable words.
StructLines ==
    { <<"Empty">>, <<"MainProgram", 1>>, <<"MainProgram", 2>>, <<"SubProgram", 1>>,
      <<"Code", << <<"M", 2>> >> >>,
      <<"Code", << <<"M", 17>> >> >>,
      <<"Code", << <<"N", 1>>, <<"Comment", "a">> >> >>,
      <<"Code", << <<"N", 1>>, <<"M", 2>>, <<"Comment", "a">> >> >>,
      <<"Code", << <<"G", 0>>, <<"M", 2>> >> >>,
      <<"Code", << <<"R", 1, 0>> >> >> }

StructInit ==
    /\ file \in SeqsUpTo(StructLines, MaxLines)
    /\ text = file
    /\ pc = "structure"
    /\ program = EmptyProgram /\ stack = <<>> /\ item = None /\ failure = None
    /\ trace = <<>>
    /\ mach = DefaultMachine(TRUE)
    /\ drawn = <<>> /\ svg = SvgNew /\ exited = None
    /\ CmdIdle /\ conv = ConvIdle

\* main.rs 17: Program::from_file(file)?
Structure ==
    /\ pc = "structure"
    /\ failure = None
    /\ \E r \in {FromFile(file)} :
          /\ failure' = r.err
          /\ program' = r.program
          /\ pc' = IF IsSome(r.err) THEN pc ELSE "select"
    /\ UNCHANGED <<mach, cmdVars, conv, drawn, svg, exited, text, file, stack, item, trace>>

SpecStruct == StructInit /\ [][Structure]_vars

(***************************************************************************)
(* The executor iterated over a structured program, past the errors it     *)
(* yields.                                                                 *)
(***************************************************************************)
MaxBody == 2
MaxYield == 20

\* The code lines of a body: calls of subprogram 7 once and of subprogram 8
\* three times, a call without P, the builtin cycle L80, a move, a line with
\* no executable word, the two terminators and a line from_gcode refuses.
ExecLines ==
    { <<"Code", << <<"L", 7>>, <<"P", 0>> >> >>,
      <<"Code", << <<"L", 80>>, <<"P", 0>> >> >>,
      <<"Code", << <<"L", 7>>, <<"P", 1>> >> >>,
      <<"Code", << <<"L", 8>>, <<"P", 2>> >> >>,
      <<"Code", << <<"L", 7>> >> >>,
      <<"Code", << <<"G", 0>>, <<"Z", SafeZ>> >> >>,
      <<"Code", << <<"N", 1>>, <<"Comment", "a">> >> >>,
      <<"Code", << <<"M", 17>> >> >>,
      <<"Code", << <<"M", 2>> >> >>,
      <<"Code", << <<"G", 0>>, <<"G", 1>> >> >> }

\* The bodies the structurer accepts for a block that ends with w
Bodies(w) ==
    { b \in SeqsUpTo(ExecLines, MaxBody) :
        LastExecutable([k \in DOMAIN b |-> [file_line |-> k, words |-> b[k][2]]])
            = Some(<<w>>) }

\* Main program 1, subprogram 7 and, in some files, a subprogram 8 or a
\* subprogram 80 that returns at once
ExecFiles ==
    { <<<<"MainProgram", 1>>>> \o m \o <<<<"SubProgram", 7>>>> \o s \o t :
        m \in Bodies(<<"M", 2>>), s \in Bodies(<<"M", 17>>),
        t \in { <<>>, << <<"SubProgram", 8>>, <<"Code", << <<"M", 17>> >> >> >>,
                      << <<"SubProgram", 80>>, <<"Code", << <<"M", 17>> >> >> >> } }

ExecInit ==
    /\ file \in ExecFiles
    /\ text = file
    /\ pc = "structure"
    /\ program = EmptyProgram /\ stack = <<>> /\ item = None /\ failure = None
    /\ trace = <<>>
    /\ mach = DefaultMachine(TRUE)
    /\ drawn = <<>> /\ svg = SvgNew /\ exited = None
    /\ CmdIdle /\ conv = ConvIdle

\* main.rs 21: program.execute(None).map_err(SimpleError::no_line)?
Select ==
    /\ pc = "select"
    /\ failure = None
    /\ \E r \in {ProgramExecute(program, None)} :
          IF r.err # Ok
          THEN failure' = Some(NoLine(r.err)) /\ UNCHANGED <<pc, stack>>
          ELSE stack' = r.stack /\ pc' = "next" /\ UNCHANGED failure
    /\ UNCHANGED <<mach, cmdVars, conv, drawn, svg, exited, text, file, program, item, trace>>

\* A call of Executor::next by a caller that goes on after an error item
CallNext ==
    /\ pc = "next"
    /\ Len(trace) < MaxYield
    /\ \E r \in {IteratorNext(stack, program.sub_programs)} :
          /\ stack' = r.stack
          /\ item' = r.item
          /\ IF IsNone(r.item)
             THEN pc' = "finalize" /\ UNCHANGED trace
             ELSE /\ trace' = Append(trace, [line |-> Val(r.item).line,
                                            err |-> Val(r.item).err])
                  /\ UNCHANGED pc
    /\ UNCHANGED <<mach, cmdVars, conv, drawn, svg, exited, text, file, program, failure>>

ExecNext == Structure \/ Select \/ CallNext

SpecExec == ExecInit /\ [][ExecNext]_vars

\* The same with a caller that, once the executor is made, asks for the
\* next item as long as there may be one (the for loop of main.rs 21).
SpecExecFair == SpecExec /\ WF_vars(CallNext)

(***************************************************************************)
(* The run of main.rs over the text of a file.                             *)
(***************************************************************************)
MaxRunLines == 5

\* The lines of a text: the headers of two main programs and of a
\* subprogram, the terminators, a call, a first move the machine accepts, a
\* spindle start it refuses, a line the parser refuses and a line that
\* cannot be read.
RunLines ==
    { <<"MainProgram", 1>>, <<"MainProgram", 2>>, <<"SubProgram", 7>>,
      <<"Code", << <<"M", 2>> >> >>,
      <<"Code", << <<"M", 17>> >> >>,
      <<"Code", << <<"L", 7>>, <<"P", 0>> >> >>,
      <<"Code", << <<"G", 0>>, <<"Z", SafeZ>> >> >>,
      <<"Code", << <<"M", 3>> >> >>,
      <<"ParseError", "Unknown G code 'G7'">>,
      <<"IoError", "stream did not contain valid UTF-8">> }

\* The ends of a text: the line M2 alone, with a number and a comment, with
\* an M8, followed by a line with no executable word, and followed by a
\* subprogram 7 that returns at once.
RunEnds ==
    { << <<"Code", << <<"M", 2>> >> >> >>,
      << <<"Code", << <<"N", 1>>, <<"M", 2>>, <<"Comment", "a">> >> >> >>,
      << <<"Code", << <<"M", 2>>, <<"M", 8>> >> >> >>,
      << <<"Code", << <<"M", 2>> >> >>, <<"Code", << <<"N", 1>>, <<"Comment", "a">> >> >> >>,
      << <<"Code", << <<"M", 2>> >> >>, <<"SubProgram", 7>>, <<"Code", << <<"M", 17>> >> >> >> }

\* The longer texts: main program 1 with up to MaxMoves lines before its
\* end, each a first move, a move that is drawn, a move below the safe
\* height, a coolant start, a spindle start the machine refuses or a call of
\* subprogram 7.
MaxMoves == 4
RunPrograms ==
    { << <<"MainProgram", 1>> >> \o b \o e :
        b \in SeqsUpTo({ <<"Code", << <<"G", 0>>, <<"Z", SafeZ>> >> >>,
                         <<"Code", << <<"G", 0>>, <<"X", 1000>>, <<"Y", 0>> >> >>,
                         <<"Code", << <<"G", 0>>, <<"Z", SafeZ - 1>> >> >>,
                         <<"Code", << <<"M", 8>> >> >>,
                         <<"Code", << <<"M", 3>> >> >>,
                         <<"Code", << <<"L", 7>>, <<"P", 0>> >> >> }, MaxMoves),
        e \in RunEnds }

RunInit ==
    /\ text \in SeqsUpTo(RunLines, MaxRunLines) \cup RunPrograms \cup {Unreadable}
    /\ pc = "load"
    /\ file = <<>> /\ program = EmptyProgram /\ stack = <<>> /\ item = None
    /\ failure = None /\ trace = <<>>
    /\ mach = DefaultMachine(TRUE)
    /\ drawn = <<>> /\ svg = SvgNew /\ exited = None
    /\ CmdIdle /\ conv = ConvIdle

\* main.rs 15: GCodeFile::load(path)?
LoadFile ==
    /\ pc = "load"
    /\ failure = None
    /\ \E r \in {Load(text)} :
          /\ failure' = r.err
          /\ file' = r.code
          /\ pc' = IF IsSome(r.err) THEN pc ELSE "structure"
    /\ UNCHANGED <<mach, cmdVars, conv, drawn, svg, exited, text, program, stack, item, trace>>

\* A loop that asks for the next item without handing the command to the
\* machine.
NextCommandSkipping ==
    /\ pc = "next"
    /\ failure = None
    /\ Len(trace) < MaxYield
    /\ \E r \in {IteratorNext(stack, program.sub_programs)} :
          /\ stack' = r.stack
          /\ item' = r.item
          /\ IF IsNone(r.item)
             THEN pc' = "finalize" /\ UNCHANGED <<trace, failure>>
             ELSE /\ trace' = Append(trace, [line |-> Val(r.item).line,
                                            err |-> Val(r.item).err])
                  /\ UNCHANGED pc
                  /\ IF Val(r.item).err # Ok
                     THEN failure' = Some(AtLine(Val(r.item).err, Val(r.item).line))
                     ELSE UNCHANGED failure
    /\ UNCHANGED <<mach, cmdVars, conv, drawn, svg, exited, text, file, program>>

\* main.rs 21-22: the for loop asks the executor for its next item
NextCommand ==
    /\ pc = "next"
    /\ failure = None
    /\ Len(trace) < MaxYield
    /\ \E r \in {IteratorNext(stack, program.sub_programs)} :
          /\ stack' = r.stack
          /\ item' = r.item
          /\ IF IsNone(r.item)
             THEN pc' = "finalize" /\ UNCHANGED <<trace, failure>>
             ELSE /\ trace' = Append(trace, [line |-> Val(r.item).line,
                                            err |-> Val(r.item).err])
                  /\ IF Val(r.item).err # Ok
                     THEN /\ failure' = Some(AtLine(Val(r.item).err, Val(r.item).line))
                          /\ UNCHANGED pc
                     ELSE pc' = "simulate" /\ UNCHANGED failure
    /\ UNCHANGED <<mach, cmdVars, conv, drawn, svg, exited, text, file, program>>

\* main.rs 23-24: the command is printed and handed to the machine
Simulate ==
    /\ pc = "simulate"
    /\ failure = None
    /\ \E r \in {ExecuteCommand(mach, Val(item).cmd)} :
          /\ mach' = r.self
          /\ drawn' = drawn \o r.calls
          /\ svg' = SvgCalls(svg, r.calls)
          /\ IF r.err # Ok
             THEN failure' = Some(AtLine(r.err, Val(item).line)) /\ UNCHANGED pc
             ELSE pc' = "next" /\ UNCHANGED failure
    /\ UNCHANGED <<cmdVars, conv, exited, text, file, program, stack, item, trace>>

\* main.rs 27-33: the render is finalized; writing the output may fail
Finalize ==
    /\ pc = "finalize"
    /\ failure = None
    /\ \E written \in BOOLEAN :
          IF written THEN pc' = "done" /\ UNCHANGED failure
          ELSE /\ failure' = Some(NoLine("Can't write output file: Permission denied (os error 13)"))
               /\ UNCHANGED pc
    /\ UNCHANGED <<mach, cmdVars, conv, drawn, svg, exited, text, file, program, stack, item, trace>>

\* main.rs 36-54: run has returned; main prints the error, if there is
\* one, and returns (), so that the process exits with code 0.
Exit ==
    /\ exited = None
    /\ pc = "done" \/ IsSome(failure)
    /\ exited' = Some([code |-> 0, printed |-> failure])
    /\ UNCHANGED <<mach, cmdVars, conv, text, file, program, stack, item, failure, pc, trace, drawn,
                   svg>>

RunNext == LoadFile \/ Structure \/ Select \/ NextCommand \/ Simulate \/ Finalize \/ Exit

SpecRun == RunInit /\ [][RunNext]_vars

(***************************************************************************)
(* Micrometer conversions: a text is parsed, the value is written by       *)
(* Display, and what Display wrote is parsed again.  A conversion starts   *)
(* from a text of at most MaxChars characters or from a value of at most   *)
(* MaxUm micrometres in size.                                              *)
(***************************************************************************)
MaxChars == 4
MaxUm == 1100
Chars == {"+", "-", ".", "0", "1", "2", "4"}

FmtInit ==
    /\ mach = DefaultMachine(TRUE) /\ CmdIdle /\ RunIdle
    /\ \/ \E s \in SeqsUpTo(Chars, MaxChars) :
             conv = [ConvIdle EXCEPT !.pc = "parse", !.input = s]
       \/ \E v \in (-MaxUm)..MaxUm :
             conv = [ConvIdle EXCEPT !.pc = "format", !.um = Some(v)]

\* Micrometer::parse on the text
ParseInput ==
    /\ conv.pc = "parse"
    /\ \E r \in {MicrometerParse(conv.input)} :
          conv' = IF r.ok
                  THEN [conv EXCEPT !.pc = "format", !.rest = r.rest, !.um = Some(r.um)]
                  ELSE [conv EXCEPT !.pc = "failed", !.rest = r.rest]
    /\ UNCHANGED <<mach, cmdVars, runVars>>

\* format!("{um}")
FormatValue ==
    /\ conv.pc = "format"
    /\ conv' = [conv EXCEPT !.pc = "reparse", !.shown = MicrometerFmt(Val(conv.um))]
    /\ UNCHANGED <<mach, cmdVars, runVars>>

\* Micrometer::parse on what Display wrote
Reparse ==
    /\ conv.pc = "reparse"
    /\ \E r \in {MicrometerParse(conv.shown)} :
          conv' = [conv EXCEPT !.pc = "done",
                               !.back = IF r.ok /\ r.rest = <<>> THEN Some(r.um) ELSE None]
    /\ UNCHANGED <<mach, cmdVars, runVars>>

FmtNext == ParseInput \/ FormatValue \/ Reparse

SpecFmt == FmtInit /\ [][FmtNext]_vars

(***************************************************************************)
(* Properties of the machine.  Each is stated of every reachable machine   *)
(* state and every probing line: Run(code) is what execute_command         *)
(* returns for the line in the current state.                              *)
(***************************************************************************)
Run(code) == ExecuteCommand(mach, code)

\* The probing lines by their movement word.
MoveWords == {None} \cup {Some(m) : m \in ProbeValues.movement}
ProbesMoving == [m \in MoveWords |-> {c \in Probes : c.movement = m}]

Present(o) == IsSome(o)
Absent(o) == IsNone(o)

\* What the line's own S, F, M3/M5 and M8/M9 words leave, stated from the
\* line and the state before it.
SpeedAfter(code) == IF Present(code.speed) THEN code.speed ELSE mach.speed
FeedAfter(code) == IF Present(code.feed) THEN code.feed ELSE mach.feed
SpindleAfter(code) ==
    IF code.spindle_action = Some(SpindleOnCW) THEN TRUE
    ELSE IF code.spindle_action = Some(SpindleOff) THEN FALSE
    ELSE mach.spindle_on
WaterAfter(code) ==
    IF code.water_action = Some(WaterOn) THEN TRUE
    ELSE IF code.water_action = Some(WaterOff) THEN FALSE
    ELSE mach.water_on

IsCut(mv) == mv \in {Some(Line), Some(CircleCW), Some(CircleCCW), Some(BuiltinCycle(80))}

InRange(o, lo, hi) == IF IsNone(o) THEN FALSE ELSE lo <= Val(o) /\ Val(o) <= hi

\* C3: every successful G1, G2, G3 or builtin-cycle dispatch happens with the
\* spindle and the coolant on (after the line's own M3/M8), speed and feed
\* within the configured bounds (after the line's own S/F), x, y and z defined
\* before the move and a tool defined; and an unset feed or speed fails the
\* cut as too low.
CutPreconditions ==
    \A m \in MoveWords : IsCut(Upd(mach.movement, m)) => \A code \in ProbesMoving[m] :
        \A r \in {Run(code)} :
           /\ (r.err = Ok /\ IsCut(r.mv)) =>
                  /\ SpindleAfter(code) /\ WaterAfter(code)
                  /\ InRange(SpeedAfter(code), MinSpeed, MaxSpeed)
                  /\ InRange(FeedAfter(code), MinFeed, MaxFeed)
                  /\ Present(mach.x) /\ Present(mach.y) /\ Present(mach.z)
                  /\ Present(mach.tool) /\ Present(r.self.tool)
           /\ (IsCut(r.mv) /\ r.err = "Feed 0 is too low") => Absent(FeedAfter(code))
           /\ (IsCut(r.mv) /\ Absent(FeedAfter(code))
                 /\ SpindleAfter(code) /\ WaterAfter(code)
                 /\ InRange(SpeedAfter(code), MinSpeed, MaxSpeed)) =>
                  r.err \in {"Feed 0 is too low",
                             "Parameter 'D' is dangerous here",
                             "Parameter 'I' is dangerous here",
                             "Parameter 'J' is dangerous here",
                             "Parameter 'Z' is dangerous here",
                             "Required parameter 'I'", "Required parameter 'J'",
                             "Required parameter 'X'", "Required parameter 'Y'"}
           /\ (IsCut(r.mv) /\ Absent(SpeedAfter(code))) => r.err # Ok

\* A cut that succeeds on a line that itself carries S, F, M3 or M8.
CutPreconditionsWitness ==
    \E code \in Probes :
        /\ Run(code).err = Ok /\ Run(code).mv = Some(Line)
        /\ Present(code.speed)
        /\ ~InRange(mach.speed, MinSpeed, MaxSpeed)

\* The errors a line can fail with before its spindle action is looked at.
EarlyErrors ==
    {"Ending program with spindle on", "Ending program with coolant on",
     "Ending program with too low Z",
     "Relative coordinates can only be used with fully defined position"}

\* The probing lines that end the program.
EndProgramLines == {c \in Probes : c.global = Some(EndProgram)}

\* C4: while z is undefined a G0 dispatch fails when X or Y is present, when
\* Z is absent, and when Z is not safe_z exactly (above it too), with `First
\* movement should be to safe Z height` when nothing else is wrong with the
\* line; so whatever the line, z leaves the undefined state only for safe_z.
FirstMoveToSafeZ ==
    Absent(mach.z) => \A code \in Probes : \A r \in {Run(code)} :
        /\ (r.mv = Some(FastLine) /\ (Present(code.raw_x) \/ Present(code.raw_y)))
               => r.err # Ok
        /\ (r.mv = Some(FastLine) /\ code.raw_z # Some(SafeZ)) => r.err # Ok
        /\ (r.mv = Some(FastLine) /\ Absent(code.raw_x) /\ Absent(code.raw_y)
              /\ Present(code.raw_z) /\ code.raw_z # Some(SafeZ)
              /\ Absent(code.i) /\ Absent(code.j) /\ Absent(code.tool))
               => r.err = "First movement should be to safe Z height"
        /\ Present(r.self.z) => (r.self.z = Some(SafeZ) /\ r.mv = Some(FastLine))

\* z is undefined, G0 Z<safe_z> is accepted and G0 Z<above safe_z> is refused.
FirstMoveToSafeZWitness ==
    /\ Absent(mach.z)
    /\ \E code \in Probes :
           /\ code.raw_z = Some(SafeZ) /\ Run(code).mv = Some(FastLine)
           /\ Run(code).err = Ok /\ Run(code).self.z = Some(SafeZ)
    /\ \E code \in Probes :
           /\ code.raw_z = Some(SafeZ + 1) /\ Run(code).mv = Some(FastLine)
           /\ Run(code).err = "First movement should be to safe Z height"

\* The errors of the end-program gate.
EndProgramErrors ==
    {"Ending program with spindle on", "Ending program with coolant on",
     "Ending program with too low Z"}

ZBelowSafe == IF IsNone(mach.z) THEN FALSE ELSE Val(mach.z) < SafeZ

\* C5: a line with M2 fails, leaving the machine as it was, when at its start
\* the spindle is on, the coolant is on, or z is defined and below safe_z; with
\* z undefined and both off, the gate lets the line through.
EndProgramRefused ==
    \A code \in EndProgramLines : \A r \in {Run(code)} :
        /\ mach.spindle_on => (r.err = "Ending program with spindle on" /\ r.self = mach)
        /\ (~mach.spindle_on /\ mach.water_on)
               => (r.err = "Ending program with coolant on" /\ r.self = mach)
        /\ (~mach.spindle_on /\ ~mach.water_on /\ ZBelowSafe)
               => (r.err = "Ending program with too low Z" /\ r.self = mach)
        /\ (~mach.spindle_on /\ ~mach.water_on /\ ~ZBelowSafe)
               => r.err \notin EndProgramErrors

\* Spindle and coolant off and z below safe_z: M2 is refused for the height.
EndProgramRefusedWitness ==
    /\ ~mach.spindle_on /\ ~mach.water_on /\ mach.z = Some(SafeZ - 1)
    /\ \E code \in EndProgramLines : Run(code).err = "Ending program with too low Z"

\* The probing lines that start the spindle forwards.
SpindleOnLines == {c \in Probes : c.spindle_action = Some(SpindleOnCW)}

\* C6: a line with M3 gets past the spindle step only if the coolant was on
\* when the line started (an M8 on the line does not count) and a speed is
\* set once the line's own S is applied; when it gets past, the spindle is on.
SpindleStartNeedsCoolantAndSpeed ==
    \A code \in SpindleOnLines : \A r \in {Run(code)} :
        /\ ~mach.water_on
               => r.err \in EarlyErrors
                              \cup {"Trying to start spindle without ensuring coolant flow"}
        /\ (mach.water_on /\ Absent(SpeedAfter(code)))
               => r.err \in EarlyErrors \cup {"Trying to start spindle without any speed"}
        /\ (mach.water_on /\ Present(SpeedAfter(code)))
               => r.err \notin {"Trying to start spindle without ensuring coolant flow",
                                "Trying to start spindle without any speed"}
        /\ r.err \notin EarlyErrors
                          \cup {"Trying to start spindle without ensuring coolant flow",
                                "Trying to start spindle without any speed"}
               => (r.self.spindle_on /\ mach.water_on /\ Present(SpeedAfter(code)))
        /\ r.err = Ok => r.self.spindle_on

\* Coolant on, spindle off and no speed: M3 with an S on the same line starts
\* the spindle, and M3 alone is refused for the speed.
SpindleStartWitness ==
    /\ mach.water_on /\ Absent(mach.speed) /\ ~mach.spindle_on
    /\ \E code \in SpindleOnLines :
           /\ Present(code.speed)
           /\ Run(code).err = Ok /\ Run(code).self.spindle_on
    /\ \E code \in SpindleOnLines :
           Run(code).err = "Trying to start spindle without any speed"

\* C7: an M6 dispatch succeeds only if D is present and none of X, Y, Z, I, J
\* is, the spindle and the coolant are off, and z is undefined or not below
\* safe_z; it leaves speed, feed, the movement mode and z undefined, x and y
\* as they were, and the tool set to the line's D.
ToolChangeContract ==
    \A code \in Probes : \A r \in {Run(code)} :
        (r.mv = Some(ToolChange) /\ r.err = Ok) =>
            /\ Present(code.tool)
            /\ Absent(code.raw_x) /\ Absent(code.raw_y) /\ Absent(code.raw_z)
            /\ Absent(code.i) /\ Absent(code.j)
            /\ ~mach.spindle_on /\ ~mach.water_on
            /\ ~SpindleAfter(code) /\ ~WaterAfter(code)
            /\ (Absent(mach.z) \/ Val(mach.z) >= SafeZ)
            /\ Absent(r.self.speed) /\ Absent(r.self.feed)
            /\ Absent(r.self.movement) /\ Absent(r.self.z)
            /\ r.self.x = mach.x /\ r.self.y = mach.y
            /\ r.self.tool = code.tool
            /\ ~r.self.spindle_on /\ ~r.self.water_on

\* A tool change that succeeds from a defined height and replaces the tool.
ToolChangeWitness ==
    /\ Present(mach.z) /\ Present(mach.x) /\ Present(mach.tool) /\ Present(mach.feed)
    /\ \E code \in Probes :
           /\ Run(code).mv = Some(ToolChange) /\ Run(code).err = Ok
           /\ Run(code).self.tool # mach.tool

\* The probing lines with a D word.
ToolLines == {c \in Probes : Present(c.tool)}

\* C8: a line with D, on a machine whose tool is set, fails unless it
\* dispatches M6 (also when D repeats the tool number); it fails with `Tool
\* change without stopping` when the same line without its D would succeed and
\* its dispatch accepts a D; so a successful line replaces a set tool only by
\* an M6 dispatch.
ToolChangeOnlyByM6 ==
    /\ Present(mach.tool) => \A code \in ToolLines : \A r \in {Run(code)} :
          /\ r.mv # Some(ToolChange) => r.err # Ok
          /\ (r.mv # Some(ToolChange) /\ Run([code EXCEPT !.tool = None]).err = Ok)
                 => r.err \in {"Tool change without stopping",
                               "Parameter 'D' is dangerous here"}
          /\ (Absent(r.mv) /\ Run([code EXCEPT !.tool = None]).err = Ok)
                 => r.err = "Tool change without stopping"
    /\ \A code \in Probes : \A r \in {Run(code)} :
          /\ (r.err = Ok /\ Present(mach.tool) /\ r.self.tool # mach.tool)
                 => r.mv = Some(ToolChange)
          /\ r.err = "Tool change without stopping"
                 => (Present(mach.tool) /\ Present(code.tool) /\ r.mv # Some(ToolChange))

\* A line whose D repeats the current tool number is refused.
ToolChangeOnlyByM6Witness ==
    /\ Present(mach.tool)
    /\ \E code \in ToolLines :
           /\ code.tool = mach.tool
           /\ Run(code).err = "Tool change without stopping"
\* The arc lines a state is probed with: X Y I J, with or without G2/G3, the
\* centre offsets up to one micrometre along x and along y.
ArcProbes ==
    LET targets == CommandsFilling({"raw_x", "raw_y", "i", "j"},
                                   [DriveValues EXCEPT !.i = {-1, 0, 1}, !.j = {0, 1}])
    IN  targets \cup {[c EXCEPT !.movement = Some(m)] :
                         c \in targets, m \in {CircleCW, CircleCCW}}

\* The end point of an arc line: its X and Y, added to the position in
\* relative mode.
EndX(code) == IF mach.relative THEN Val(mach.x) + Val(code.raw_x) ELSE Val(code.raw_x)
EndY(code) == IF mach.relative THEN Val(mach.y) + Val(code.raw_y) ELSE Val(code.raw_y)

\* The rounded distances from the start and from the end to the centre
\* (x + I, y + J) are equal.
OnCircle(code) ==
    RoundHypot(Val(code.i), Val(code.j))
        = RoundHypot(EndX(code) - (Val(mach.x) + Val(code.i)),
                     EndY(code) - (Val(mach.y) + Val(code.j)))

\* C13: a G2/G3 dispatch with I, J, X, Y and without Z, D, on a machine ready
\* to cut, succeeds exactly when the rounded distances from the start and
\* from the end to the centre (x + I, y + J) are equal, in absolute and in
\* relative mode; it then moves to the end point, leaves z, and makes one
\* arc_to call with that centre and end point.
CircleRule ==
    \A code \in ArcProbes : \A r \in {Run(code)} :
        (r.mv \in {Some(CircleCW), Some(CircleCCW)} /\ PrepareCut(mach) = Ok)
            => /\ r.err = Ok <=> OnCircle(code)
               /\ r.err = Ok =>
                     /\ r.self.x = Some(EndX(code)) /\ r.self.y = Some(EndY(code))
                     /\ r.self.z = mach.z
                     /\ r.calls = <<[op |-> "arc_to", tool |-> ToolDiameter,
                                     kind |-> IF r.mv = Some(CircleCW) THEN "Cw" ELSE "Ccw",
                                     cx |-> Val(mach.x) + Val(code.i),
                                     cy |-> Val(mach.y) + Val(code.j),
                                     ex |-> EndX(code), ey |-> EndY(code)]>>
               /\ r.err # Ok => r.self.x = mach.x /\ r.self.y = mach.y /\ r.calls = <<>>

\* In relative mode an arc from (0, 0) about (0, 1) ends at (1, 0): the
\* distances 1 and sqrt(2) are both rounded to 1.
CircleRuleWitness ==
    /\ mach.relative /\ PrepareCut(mach) = Ok
    /\ mach.x = Some(0) /\ mach.y = Some(0)
    /\ \E code \in ArcProbes : \E r \in {Run(code)} :
           /\ r.mv = Some(CircleCCW)
           /\ code.i = Some(0) /\ code.j = Some(1) /\ code.raw_x = Some(1)
           /\ r.err = Ok /\ r.self.x = Some(1)
\* The dispatch of the line was a G0 or G1 and returned Ok: the line
\* succeeds, or fails only by the tool change check made after the dispatch.
LineDispatched(r) ==
    /\ r.mv \in {Some(FastLine), Some(Line)}
    /\ r.err \in {Ok, "Tool change without stopping"}

\* The one line_to call for where the machine is left
LineToResult(r) ==
    <<[op |-> "line_to", tool |-> 6000,
       kind |-> IF r.mv = Some(FastLine) THEN "Fast" ELSE "Cut",
       x |-> Val(r.self.x), y |-> Val(r.self.y), z |-> Val(r.self.z)]>>

\* C14: after every successful G0 or G1 dispatch the renderer has received
\* exactly one line_to call with the kind, the resulting position and the
\* tool diameter 6.000 mm.
EveryLineIsRendered ==
    mach.render => \A code \in Probes : \A r \in {Run(code)} :
        LineDispatched(r)
            => /\ Len(r.calls) = 1
               /\ Present(r.self.x) /\ Present(r.self.y) /\ Present(r.self.z)
               /\ r.calls = LineToResult(r)

\* C14 (amended): a successful G0 or G1 dispatch makes that one line_to
\* call when it leaves x, y and z defined, and no call when x or y is still
\* undefined, as after the first G0 that only sets z.
DefinedLinesAreRendered ==
    mach.render => \A code \in Probes : \A r \in {Run(code)} :
        LineDispatched(r)
            => /\ Present(r.self.z)
               /\ r.calls = IF Present(r.self.x) /\ Present(r.self.y)
                            THEN LineToResult(r) ELSE <<>>
               /\ r.mv = Some(Line) => Len(r.calls) = 1

\* The first G0 has set z and x is undefined: a further G0 of z alone
\* succeeds without a call, a G0 of x and y is rendered.
FirstLineNotRenderedWitness ==
    /\ mach.render /\ Present(mach.z) /\ Absent(mach.x) /\ Absent(mach.y)
    /\ mach.movement = Some(FastLine)
    /\ \E code \in Probes : \E r \in {Run(code)} :
           /\ Present(code.raw_z) /\ r.mv = Some(FastLine) /\ r.err = Ok
           /\ r.calls = <<>>
    /\ \E code \in Probes : \E r \in {Run(code)} :
           /\ r.mv = Some(FastLine) /\ r.err = Ok /\ Len(r.calls) = 1
\* The mode a line is executed in: that of its G90/G91, else the current one
RelativeFor(code) ==
    IF Present(code.coord_switch) THEN code.coord_switch = Some(Relative)
    ELSE mach.relative

PositionDefined == Present(mach.x) /\ Present(mach.y) /\ Present(mach.z)

RelativeRefusal == "Relative coordinates can only be used with fully defined position"

\* C26: every line executed in relative mode while x, y or z is undefined
\* fails with `Relative coordinates can only be used with fully defined
\* position`, with or without axis words.
RelativeNeedsPosition ==
    \A code \in Probes : \A r \in {Run(code)} :
        (RelativeFor(code) /\ ~PositionDefined) => r.err = RelativeRefusal

\* C26 (amended): such a line fails, with that error unless it is an M2 line
\* that the end-program gate, which comes first, refuses; the error is given
\* only so; in relative mode with z undefined, as after an M6, only lines
\* with G90 can succeed.
RelativeNeedsPositionPastGate ==
    \A code \in Probes : \A r \in {Run(code)} :
        /\ (RelativeFor(code) /\ ~PositionDefined) =>
              /\ r.err # Ok
              /\ r.err # RelativeRefusal
                    => code.global = Some(EndProgram) /\ r.err \in EndProgramErrors
              /\ (code.global # Some(EndProgram)
                    \/ (~mach.spindle_on /\ ~mach.water_on /\ ~ZBelowSafe))
                    => r.err = RelativeRefusal
        /\ r.err = RelativeRefusal => (RelativeFor(code) /\ ~PositionDefined)
        /\ (mach.relative /\ Absent(mach.z) /\ r.err = Ok)
              => code.coord_switch = Some(Absolute)

\* With the spindle on and the position undefined, the line G91 M2 is
\* refused by the end-program gate.
GateBeforeRelativeWitness ==
    /\ mach.spindle_on /\ ~mach.relative /\ ~PositionDefined
    /\ \E code \in Probes :
          /\ code.coord_switch = Some(Relative) /\ code.global = Some(EndProgram)
          /\ Run(code).err = "Ending program with spindle on"

\* After an M6 in relative mode z is undefined: a line without words fails,
\* and G90 succeeds.
RelativeAfterToolChangeWitness ==
    /\ mach.relative /\ Absent(mach.z) /\ Present(mach.x) /\ Present(mach.y)
    /\ Present(mach.tool) /\ Absent(mach.movement)
    /\ Run(DefaultCommand).err = RelativeRefusal
    /\ \E code \in Probes : code.coord_switch = Some(Absolute) /\ Run(code).err = Ok

\* The arc lines with a G90 or G91 of their own
ArcProbesSwitching ==
    { [c EXCEPT !.coord_switch = Some(m)] : c \in ArcProbes, m \in {Absolute, Relative} }

\* C27: the mode starts absolute; a line that passes the end-program gate
\* leaves the machine in the mode of its G90/G91, and in the mode it found
\* when it has neither; a line that succeeds in a G0 or G1 dispatch from a
\* defined position moves every axis it names to the raw value in absolute
\* mode and to the current coordinate plus the raw value in relative mode,
\* the mode being that of the line itself; the centre of an arc is the
\* current position plus I and J in both modes.
ModeRule ==
    /\ ~DefaultMachine(TRUE).relative
    /\ \A code \in Probes : \A r \in {Run(code)} :
          /\ r.err \notin EndProgramErrors => r.self.relative = RelativeFor(code)
          /\ r.err \in EndProgramErrors => r.self = mach
          /\ (r.err = Ok /\ r.mv \in {Some(FastLine), Some(Line)} /\ PositionDefined) =>
                /\ r.self.x = IF Absent(code.raw_x) THEN mach.x
                              ELSE IF RelativeFor(code)
                              THEN Some(Val(mach.x) + Val(code.raw_x)) ELSE code.raw_x
                /\ r.self.y = IF Absent(code.raw_y) THEN mach.y
                              ELSE IF RelativeFor(code)
                              THEN Some(Val(mach.y) + Val(code.raw_y)) ELSE code.raw_y
                /\ r.self.z = IF Absent(code.raw_z) THEN mach.z
                              ELSE IF RelativeFor(code)
                              THEN Some(Val(mach.z) + Val(code.raw_z)) ELSE code.raw_z
    /\ \A code \in ArcProbes \cup ArcProbesSwitching : \A r \in {Run(code)} :
          (r.err = Ok /\ r.mv \in {Some(CircleCW), Some(CircleCCW)}) =>
             /\ r.calls[1].cx = Val(mach.x) + Val(code.i)
             /\ r.calls[1].cy = Val(mach.y) + Val(code.j)
             /\ r.self.x = IF RelativeFor(code)
                           THEN Some(Val(mach.x) + Val(code.raw_x)) ELSE code.raw_x

\* In absolute mode at x = 1 the line G91 X1 moves to x = 2 and leaves the
\* machine in relative mode; in relative mode at x = 1 the line G90 X1 stays
\* at x = 1.
ModeRuleWitness ==
    /\ PositionDefined /\ mach.x = Some(1) /\ ~mach.relative
    /\ \E code \in Probes : \E r \in {Run(code)} :
          /\ code.coord_switch = Some(Relative) /\ code.raw_x = Some(1)
          /\ r.err = Ok /\ r.self.x = Some(2) /\ r.self.relative
          /\ \E back \in Probes : \E q \in {ExecuteCommand(r.self, back)} :
                /\ back.coord_switch = Some(Absolute) /\ back.raw_x = Some(1)
                /\ q.err = Ok /\ q.self.x = Some(1) /\ ~q.self.relative

\* In relative mode an arc about (x + I, y + J) with a G90 of its own ends at
\* its raw X.
ArcModeWitness ==
    /\ mach.relative /\ PositionDefined /\ mach.x = Some(1)
    /\ \E code \in ArcProbesSwitching : \E r \in {Run(code)} :
          /\ code.coord_switch = Some(Absolute)
          /\ r.err = Ok /\ r.mv = Some(CircleCW)
          /\ code.raw_x = Some(0) /\ r.self.x = Some(0)
          /\ r.calls[1].cx = 1 + Val(code.i)

\* The movement mode once the movement word of the line is applied
ModeFor(code) == IF Present(code.movement) THEN code.movement ELSE mach.movement

\* A movement mode is current for the line, and the line has a movement word
\* or one of X, Y, Z.
Triggers(code) ==
    /\ Present(ModeFor(code))
    /\ \/ Present(code.movement)
       \/ Present(code.raw_x) \/ Present(code.raw_y) \/ Present(code.raw_z)

HasAxisWord(code) ==
    \/ Present(code.raw_x) \/ Present(code.raw_y) \/ Present(code.raw_z)
    \/ Present(code.i) \/ Present(code.j)

\* A line that nothing stops before the dispatch: no M2, no spindle or
\* coolant word, executed in absolute mode.
PlainLine(code) ==
    /\ Absent(code.global) /\ Absent(code.spindle_action) /\ Absent(code.water_action)
    /\ ~RelativeFor(code)

\* C28: the movement dispatch runs, for the mode current once the movement
\* word of the line is applied, only when such a mode is set and the line has
\* a movement word or one of X, Y, Z, and then always unless the line has
\* failed before; I and J alone do not make it run; a line that is not
\* dispatched fails when it has any of X, Y, Z, I, J; a successful line
\* leaves the mode current, but a dispatched M6 or builtin cycle leaves none,
\* and with no mode a line of coordinates alone fails.
DispatchRule ==
    \A code \in Probes \cup ArcProbes : \A r \in {Run(code)} :
        /\ Present(r.mv) => Triggers(code) /\ r.mv = ModeFor(code)
        /\ (Triggers(code) /\ (r.err = Ok \/ PlainLine(code))) => Present(r.mv)
        /\ (Absent(r.mv) /\ HasAxisWord(code)) => r.err # Ok
        /\ r.err = Ok =>
              r.self.movement = IF \/ r.mv = Some(ToolChange)
                                   \/ (Present(r.mv) /\ Val(r.mv)[1] = "BuiltinCycle")
                                THEN None ELSE ModeFor(code)
        /\ (Absent(mach.movement) /\ Absent(code.movement) /\ HasAxisWord(code))
              => r.err # Ok

\* In the mode G1 a builtin cycle succeeds and leaves no mode: the line X0
\* that follows it fails, and so does the line I1 in the mode G1 itself.
DispatchRuleWitness ==
    /\ mach.movement = Some(Line)
    /\ \E code \in Probes : \E r \in {Run(code)} :
          /\ r.mv = Some(BuiltinCycle(80)) /\ r.err = Ok
          /\ Absent(r.self.movement)
          /\ \E next \in Probes :
                /\ next = [DefaultCommand EXCEPT !.raw_x = Some(0)]
                /\ ExecuteCommand(r.self, next).err = "Parameter 'X' is dangerous here"
    /\ \E code \in Probes : \E r \in {Run(code)} :
          /\ code = [DefaultCommand EXCEPT !.i = Some(1)]
          /\ Absent(r.mv) /\ r.err = "Parameter 'I' is dangerous here"

\* The spindle once the spindle word of the line is applied
SpindleFor(code) ==
    IF code.spindle_action = Some(SpindleOff) THEN FALSE
    ELSE IF code.spindle_action = Some(SpindleOnCW) THEN TRUE
    ELSE mach.spindle_on

StopBoth == [DefaultCommand EXCEPT !.spindle_action = Some(SpindleOff),
                                   !.water_action = Some(WaterOff)]

StartAndDry == [DefaultCommand EXCEPT !.spindle_action = Some(SpindleOnCW),
                                      !.water_action = Some(WaterOff)]

\* C29: a line with M9 fails when it has a movement word, when the spindle is
\* on once the spindle word of the line is applied, or when it has any of
\* X, Y, Z, I, J; when it succeeds the coolant is off; the line M5 M9
\* succeeds while the spindle is running and the line M3 M9 fails.
CoolantOffRule ==
    \A code \in Probes \cup ArcProbes : \A r \in {Run(code)} :
        /\ code.water_action = Some(WaterOff) =>
              /\ Present(code.movement) => r.err # Ok
              /\ SpindleFor(code) => r.err # Ok
              /\ HasAxisWord(code) => r.err # Ok
              /\ r.err = Ok => ~r.self.water_on
        /\ (code = StopBoth /\ mach.spindle_on) => r.err = Ok /\ ~r.self.spindle_on
        /\ code = StartAndDry => r.err # Ok

\* The line M5 M9 stops a running spindle and the coolant, where the line M9
\* alone is refused, and the line M3 M9 is refused for the running spindle.
CoolantOffRuleWitness ==
    /\ mach.spindle_on /\ mach.water_on
    /\ Run(StopBoth).err = Ok
    /\ ~Run(StopBoth).self.water_on
    /\ Run([DefaultCommand EXCEPT !.water_action = Some(WaterOff)]).err
          = "Coolant turned off while spindle still running"
    /\ Run(StartAndDry).err = "Coolant turned off while spindle still running"

PartlyDefined(self) == (Absent(self.x) \/ Absent(self.y)) /\ Present(self.z)

\* C30: while z is defined and x or y is not, a dispatched G0 succeeds only
\* if the z it leaves is not below the safe height; and in every state that
\* successful lines alone have led to, z is not below the safe height while
\* z is defined and x or y is not.
SafeWhilePartlyDefined ==
    /\ PartlyDefined(mach) => Val(mach.z) >= SafeZ
    /\ \A code \in Probes \cup Moves : \A r \in {Run(code)} :
          (PartlyDefined(mach) /\ r.mv = Some(FastLine) /\ r.err = Ok)
              => Present(r.self.z) /\ Val(r.self.z) >= SafeZ

\* With x defined, y undefined and z above the safe height, the line
\* G0 to a z below the safe height is refused and the line G0 to the safe
\* height moves there.
SafeWhilePartlyDefinedWitness ==
    /\ Present(mach.x) /\ Absent(mach.y)
    /\ mach.z = Some(SafeZ + 1)
    /\ \E code \in Moves : \E r \in {Run(code)} :
          /\ code.movement = Some(FastLine) /\ code.raw_z = Some(SafeZ - 1)
          /\ r.mv = Some(FastLine)
          /\ r.err = "Unsafe movement without fully defininig the position"
    /\ \E code \in Moves : \E r \in {Run(code)} :
          /\ code.movement = Some(FastLine) /\ code.raw_z = Some(SafeZ)
          /\ r.err = Ok /\ r.self.z = Some(SafeZ)

\* The refused line has left its z in the machine.
RefusedMoveLeavesLowZWitness ==
    /\ PartlyDefined(mach)
    /\ Val(mach.z) < SafeZ

SpindleIsSupplied(self) == self.spindle_on => (self.water_on /\ Present(self.speed))

\* C32: in every state that execute_command calls lead to from the initial
\* state, the successful and the failing ones alike, a running spindle has
\* the coolant on and a speed defined.
RunningSpindleIsSupplied ==
    /\ SpindleIsSupplied(mach)
    /\ \A code \in Probes \cup ArcProbes \cup Moves : SpindleIsSupplied(Run(code).self)

\* The spindle runs in a state that a refused G91 has left, and the lines
\* M9 and G90 M6 fail there and leave it running with the coolant on.
RunningSpindleIsSuppliedWitness ==
    /\ mach.spindle_on /\ mach.water_on /\ Present(mach.speed)
    /\ mach.relative /\ ~PositionDefined
    /\ \E code \in Probes : \E r \in {Run(code)} :
          /\ code = [DefaultCommand EXCEPT !.water_action = Some(WaterOff)]
          /\ r.err # Ok /\ r.self.spindle_on /\ r.self.water_on
    /\ \E code \in Probes : \E r \in {Run(code)} :
          /\ code.coord_switch = Some(Absolute) /\ code.movement = Some(ToolChange)
          /\ r.err # Ok /\ r.self.spindle_on /\ r.self.water_on

IsArc(r) == \E k \in DOMAIN r.calls : r.calls[k].op = "arc_to"

\* C34: whatever commands the machine with a render has executed, an arc_to
\* is handed to a render that has stored a position, which only a line_to
\* can have given it first: arc_to never panics for want of a start.
ArcHasStart ==
    /\ ~svg.panicked
    /\ \A code \in Probes \cup ArcProbes : \A r \in {Run(code)} :
          IsArc(r) => /\ Present(svg.position)
                      /\ ~SvgCalls(svg, r.calls).panicked
                      /\ svg.position = Some(<<Val(mach.x), Val(mach.y)>>)

\* An arc is drawn from the position a line_to has stored, and moves the
\* stored position to its end point.
ArcHasStartWitness ==
    /\ Present(svg.position)
    /\ \E code \in ArcProbes : \E r \in {Run(code)} :
          /\ IsArc(r) /\ r.err = Ok
          /\ SvgCalls(svg, r.calls).position = Some(<<Val(r.self.x), Val(r.self.y)>>)
          /\ SvgCalls(svg, r.calls).position # svg.position

(***************************************************************************)
(* Properties of the command builder.                                      *)
(***************************************************************************)
\* The slot a word targets, by the word alone; Comment and R target none.
SlotOf(word) ==
    LET l == word[1]
        v == word[2]
    IN IF l = "L" THEN IF v < 80 THEN "global" ELSE "movement"
       ELSE IF l = "M" THEN
            IF v \in {2, 17} THEN "global"
            ELSE IF v = 6 THEN "movement"
            ELSE IF v \in {3, 4, 5} THEN "spindle_action"
            ELSE "water_action"
       ELSE IF l = "G" THEN IF v \in {0, 1, 2, 3} THEN "movement" ELSE "coord_switch"
       ELSE IF l = "N" THEN "n"
       ELSE IF l = "S" THEN "speed"
       ELSE IF l = "F" THEN "feed"
       ELSE IF l = "D" THEN "tool"
       ELSE IF l = "X" THEN "raw_x"
       ELSE IF l = "Y" THEN "raw_y"
       ELSE IF l = "Z" THEN "raw_z"
       ELSE IF l = "I" THEN "i"
       ELSE IF l = "J" THEN "j"
       ELSE IF l = "P" THEN "p"
       ELSE "none"

\* The value a word gives to its slot.
SlotValue(word) ==
    LET l == word[1]
        v == word[2]
    IN IF l = "L" THEN IF v < 80 THEN CallSub(v) ELSE BuiltinCycle(v)
       ELSE IF l = "M" THEN
            CASE v = 2 -> EndProgram [] v = 17 -> ReturnSub [] v = 6 -> ToolChange
              [] v = 3 -> SpindleOnCW [] v = 4 -> SpindleOnCCW [] v = 5 -> SpindleOff
              [] v = 8 -> WaterOn [] v = 9 -> WaterOff
       ELSE IF l = "G" THEN
            CASE v = 0 -> FastLine [] v = 1 -> Line [] v = 2 -> CircleCW
              [] v = 3 -> CircleCCW [] v = 90 -> Absolute [] v = 91 -> Relative
       ELSE v

CommandSlots ==
    { "global", "movement", "spindle_action", "water_action", "coord_switch",
      "raw_x", "raw_y", "raw_z", "i", "j", "speed", "feed", "tool", "n", "p" }

Targeting(words, f) == { k \in DOMAIN words : SlotOf(words[k]) = f }

HasDuplicate(words) == \E f \in CommandSlots : Cardinality(Targeting(words, f)) >= 2

\* C9: from_gcode fails exactly when two words of the line target the same
\* slot (the same word twice included; Comment and R never count), and when it
\* succeeds every slot holds the value of its one word, or nothing, and raw
\* holds all the words in order.
DuplicateWordsRefused ==
    IsSome(built) =>
        LET r == Val(built)
        IN /\ (r.err # Ok) <=> HasDuplicate(gcode)
           /\ r.err = Ok =>
                /\ r.cmd.raw = gcode
                /\ \A f \in CommandSlots :
                      IF Targeting(gcode, f) = {} THEN r.cmd[f] = None
                      ELSE \E k \in Targeting(gcode, f) :
                              r.cmd[f] = Some(SlotValue(gcode[k]))

\* A line of three words whose first and last are the same scalar word is
\* refused, and a line with a comment, an R word and a move is built.
DuplicateWordsWitness ==
    /\ IsSome(built)
    /\ Len(gcode) = 3
    /\ gcode[1] = gcode[3]
    /\ SlotOf(gcode[1]) = "raw_x"
    /\ SlotOf(gcode[2]) = "none"
    /\ Val(built).err # Ok

(***************************************************************************)
(* Properties of the structurer.                                           *)
(***************************************************************************)
\* The structurer has run on the file.
Structured == pc = "select" \/ (pc = "structure" /\ IsSome(failure))

\* The header in force at line k of the file: the last one before it.
HeaderOf(k) ==
    LET hs == { h \in 1..(k - 1) : file[h][1] \in {"MainProgram", "SubProgram"} }
    IN IF hs = {} THEN 0 ELSE CHOOSE h \in hs : \A q \in hs : q <= h

CodeLinesOfFile == { k \in DOMAIN file : file[k][1] = "Code" }

\* The file lines of the block of kind ty ("MainProgram" or "SubProgram")
\* and id n.
BlockLines(ty, n) ==
    { k \in CodeLinesOfFile : HeaderOf(k) # 0 /\ file[HeaderOf(k)] = <<ty, n>> }

BlocksOfFile ==
    { b \in {"MainProgram", "SubProgram"} \X {1, 2, 7, 8} : BlockLines(b[1], b[2]) # {} }

Terminator(ty) == IF ty = "MainProgram" THEN <<"M", 2>> ELSE <<"M", 17>>

\* Scanning the block from its end and skipping the lines whose words are
\* all N or Comment words, the first line found holds, beside such words,
\* the terminator alone.
EndsWithTerminator(ty, n) ==
    LET exec == { k \in BlockLines(ty, n) :
                    \E i \in DOMAIN file[k][2] : file[k][2][i][1] \notin {"N", "Comment"} }
    IN /\ exec # {}
       /\ LET last == CHOOSE k \in exec : \A q \in exec : q <= k
          IN SelectSeq(file[last][2], IsExecutable) = <<Terminator(ty)>>

TerminatorMessage(ty, n) ==
    (IF ty = "MainProgram" THEN "Main program #" ELSE "Subprogram #") \o ToString(n)
    \o " does not end with " \o (IF ty = "MainProgram" THEN "M2" ELSE "M17")

NoOrphanLine == \A k \in CodeLinesOfFile : HeaderOf(k) # 0

\* C2: from_file accepts a file whose code lines all follow a header exactly
\* when every block ends with its terminator: the last line of the block that
\* has an executable word has the terminator (M2 for a main program, M17 for a
\* subprogram) as its only executable word; a block with no executable word is
\* refused.  The block a terminator error names is one that does not end so.
TerminatorRule ==
    (Structured /\ NoOrphanLine) =>
        /\ failure = None <=> \A b \in BlocksOfFile : EndsWithTerminator(b[1], b[2])
        /\ IsSome(failure) =>
              \E b \in BlocksOfFile :
                 /\ ~EndsWithTerminator(b[1], b[2])
                 /\ Val(failure).error = TerminatorMessage(b[1], b[2])

\* A file is accepted whose main program has a line of N and Comment words
\* after the line N1 M2 (a).
TerminatorRuleWitness ==
    /\ Structured
    /\ failure = None
    /\ Len(file) = 3
    /\ file[1] = <<"MainProgram", 1>>
    /\ file[2] = <<"Code", << <<"N", 1>>, <<"M", 2>>, <<"Comment", "a">> >> >>
    /\ file[3] = <<"Code", << <<"N", 1>>, <<"Comment", "a">> >> >>
    /\ DOMAIN program.main_programs = {1}

\* The ids Program::execute is tried with: none, and ids with and without a
\* main program.
ProbeIds == {None, Some(1), Some(2), Some(3)}

\* The ids of the main programs of the file
MainIds == { n \in {1, 2, 3} : BlockLines("MainProgram", n) # {} }

\* The executor starts at the first code line of main program n: one frame,
\* whose first line is that line.
StartsAt(r, n) ==
    /\ r.err = Ok
    /\ Len(r.stack) = 1
    /\ r.stack[1].code # <<>>
    /\ r.stack[1].code[1].file_line
           = CHOOSE k \in BlockLines("MainProgram", n) :
                 \A q \in BlockLines("MainProgram", n) : k <= q
    /\ r.stack[1].full_code = r.stack[1].code

\* C16: with no id Program::execute starts at the first line of the main
\* program with the smallest id, or fails with `No main programs found`
\* when there is none; with an id it starts that main program, or fails
\* with `Program %n not found` when there is no main program of that id,
\* also when a subprogram has the id.
SelectionRule ==
    (pc = "select" /\ failure = None) =>
        \A idx \in ProbeIds : \A r \in {ProgramExecute(program, idx)} :
            IF IsNone(idx)
            THEN IF MainIds = {} THEN r.err = "No main programs found" /\ r.stack = <<>>
                 ELSE StartsAt(r, CHOOSE m \in MainIds : \A q \in MainIds : m <= q)
            ELSE IF Val(idx) \in MainIds THEN StartsAt(r, Val(idx))
                 ELSE /\ r.err = "Program %" \o ToString(Val(idx)) \o " not found"
                      /\ r.stack = <<>>

\* The file holds main program 2 before main program 1: with no id the
\* executor starts at main program 1, in the last line of the file.
SelectionRuleWitness ==
    /\ pc = "select" /\ failure = None
    /\ Len(file) = 4
    /\ file[1] = <<"MainProgram", 2>>
    /\ MainIds = {1, 2}
    /\ StartsAt(ProgramExecute(program, None), 1)
    /\ ProgramExecute(program, None).stack[1].code[1].file_line = 4
    /\ StartsAt(ProgramExecute(program, Some(2)), 2)

\* The file holds main program 2 and subprogram 1: id 1 is not found.
SubprogramIsNoMainWitness ==
    /\ pc = "select" /\ failure = None
    /\ MainIds = {2}
    /\ BlockLines("SubProgram", 1) # {}
    /\ ProgramExecute(program, Some(1)).err = "Program %1 not found"

\* The code lines of the file that no header precedes
OrphanLines == { k \in CodeLinesOfFile : HeaderOf(k) = 0 }

\* C17: a code line before any header makes from_file fail with `Code line
\* with no program` at the number of that line, counted from 1 (the first
\* such line, where from_file stops); a file without such a line, also one
\* with empty lines before its first header, does not fail with that error.
OrphanLineRefused ==
    Structured =>
        IF OrphanLines # {}
        THEN failure = Some([error |-> "Code line with no program",
                             line |-> Some(CHOOSE k \in OrphanLines :
                                               \A q \in OrphanLines : k <= q)])
        ELSE failure = None \/ Val(failure).error # "Code line with no program"

\* After an empty line a code line comes before any header: the error names
\* line 2.
OrphanLineRefusedWitness ==
    /\ Structured
    /\ Len(file) = 4
    /\ file[1] = <<"Empty">> /\ file[2] = <<"Code", << <<"M", 2>> >> >>
    /\ file[3] = <<"MainProgram", 1>>
    /\ failure = Some([error |-> "Code line with no program", line |-> Some(2)])

\* Empty lines before and after the first header are skipped.
EmptyLinesSkippedWitness ==
    /\ Structured
    /\ Len(file) = 4
    /\ file[1] = <<"Empty">> /\ file[2] = <<"MainProgram", 1>> /\ file[3] = <<"Empty">>
    /\ failure = None
    /\ DOMAIN program.main_programs = {1}
    /\ program.main_programs[1].code[1].file_line = 4

\* The headers of the file, as <<kind, id>>
HeadersOfFile ==
    { file[k] : k \in { h \in DOMAIN file : file[h][1] \in {"MainProgram", "SubProgram"} } }

\* The map of the catalog that holds the blocks of a kind
CatalogOf(ty) ==
    IF ty = "MainProgram" THEN program.main_programs ELSE program.sub_programs

\* C22: the catalog of an accepted file holds a block for every header id of
\* the file, main and sub ids apart, and a file with a header that no code
\* line follows is refused.
EveryHeaderHasBlock ==
    (Structured /\ NoOrphanLine) =>
        /\ failure = None => \A h \in HeadersOfFile : h[2] \in DOMAIN CatalogOf(h[1])
        /\ (\E h \in HeadersOfFile : BlockLines(h[1], h[2]) = {}) => IsSome(failure)

\* The catalog of an accepted file holds a block exactly for the header ids
\* under which the file has a code line, main and sub ids apart, and no
\* block is empty.
BlocksHoldCodeLines ==
    (Structured /\ failure = None) =>
        \A ty \in {"MainProgram", "SubProgram"} :
            /\ DOMAIN CatalogOf(ty) = { n \in {1, 2, 3} : BlockLines(ty, n) # {} }
            /\ \A n \in DOMAIN CatalogOf(ty) :
                  { CatalogOf(ty)[n].code[k].file_line : k \in DOMAIN CatalogOf(ty)[n].code }
                      = BlockLines(ty, n)

\* A file of main program 1 and the header of subprogram 1 alone is
\* accepted, and its catalog holds no subprogram.
HeaderWithoutBlockWitness ==
    /\ Structured /\ failure = None
    /\ Len(file) = 3
    /\ file[1] = <<"MainProgram", 1>> /\ file[3] = <<"SubProgram", 1>>
    /\ DOMAIN program.main_programs = {1}
    /\ program.sub_programs = <<>>

\* The first header of kind ty and id n in the file
FirstHeader(ty, n) ==
    CHOOSE k \in DOMAIN file : file[k] = <<ty, n>> /\ \A h \in 1..(k - 1) : file[h] # <<ty, n>>

\* The header in force at the first code line of the block
HeaderOfFirstCode(ty, n) ==
    HeaderOf(CHOOSE k \in BlockLines(ty, n) : \A q \in BlockLines(ty, n) : k <= q)

\* C23: the file_line of every block is the line of the first header of its
\* id in the file, its code lines are in the order of the file, and a
\* terminator error names that line.
BlockLineIsFirstHeader ==
    (Structured /\ NoOrphanLine) =>
        /\ failure = None =>
              \A ty \in {"MainProgram", "SubProgram"} : \A n \in DOMAIN CatalogOf(ty) :
                 /\ CatalogOf(ty)[n].file_line = FirstHeader(ty, n)
                 /\ \A k \in DOMAIN CatalogOf(ty)[n].code : \A h \in 1..(k - 1) :
                       CatalogOf(ty)[n].code[h].file_line < CatalogOf(ty)[n].code[k].file_line
        /\ IsSome(failure) =>
              \E b \in BlocksOfFile :
                 /\ ~EndsWithTerminator(b[1], b[2])
                 /\ Val(failure).error = TerminatorMessage(b[1], b[2])
                 /\ Val(failure).line = Some(FirstHeader(b[1], b[2]))

\* The file_line of every block is the line of the header in force at the
\* first code line of the block, later headers of the id do not change it,
\* its code lines are in the order of the file, and a terminator error
\* names that line.
BlockLineIsHeaderOfFirstCode ==
    (Structured /\ NoOrphanLine) =>
        /\ failure = None =>
              \A ty \in {"MainProgram", "SubProgram"} : \A n \in DOMAIN CatalogOf(ty) :
                 /\ CatalogOf(ty)[n].file_line = HeaderOfFirstCode(ty, n)
                 /\ \A k \in DOMAIN CatalogOf(ty)[n].code : \A h \in 1..(k - 1) :
                       CatalogOf(ty)[n].code[h].file_line < CatalogOf(ty)[n].code[k].file_line
        /\ IsSome(failure) =>
              \E b \in BlocksOfFile :
                 /\ ~EndsWithTerminator(b[1], b[2])
                 /\ Val(failure).error = TerminatorMessage(b[1], b[2])
                 /\ Val(failure).line = Some(HeaderOfFirstCode(b[1], b[2]))

\* The header of main program 1 is repeated before its first code line: the
\* block is accepted with file_line 2.
SecondHeaderRecordedWitness ==
    /\ Structured /\ failure = None
    /\ Len(file) = 3
    /\ file[1] = <<"MainProgram", 1>> /\ file[2] = <<"MainProgram", 1>>
    /\ file[3] = <<"Code", << <<"M", 2>> >> >>
    /\ program.main_programs[1].file_line = 2

\* A repeated header after the first code line leaves file_line as it is:
\* the terminator error of main program 1 names line 1.
LaterHeaderKeepsLineWitness ==
    /\ Structured /\ IsSome(failure)
    /\ Len(file) = 4
    /\ file[1] = <<"MainProgram", 1>> /\ file[2][1] = "Code"
    /\ file[3] = <<"MainProgram", 1>> /\ file[4][1] = "Code"
    /\ Val(failure).line = Some(1)

(***************************************************************************)
(* Properties of the executor.  The trace holds, for every item yielded,   *)
(* the file line of its code line and its error.                           *)
(***************************************************************************)
\* The executor has been started on the main program with the least id.
Started == pc \in {"next", "simulate", "finalize", "done"}

Root ==
    program.main_programs[CHOOSE m \in DOMAIN program.main_programs :
                             \A q \in DOMAIN program.main_programs : m <= q].code

\* A call line L n P k of a subprogram n of the catalog.
IsCall(line) ==
    LET cmd == FromGcode(line.words).cmd
    IN /\ FromGcode(line.words).err = Ok
       /\ IsSome(cmd.global)
       /\ Val(cmd.global)[1] = "CallSub"
       /\ Val(cmd.global)[2] \in DOMAIN program.sub_programs
       /\ IsSome(cmd.p)

RECURSIVE Passes(_, _)
Passes(body, m) == IF m = 0 THEN <<>> ELSE body \o Passes(body, m - 1)

\* The first n file lines of the lines `work` once every call line L n P k
\* is followed by k+1 passes through the body of subprogram n.
RECURSIVE Expansion(_, _)
Expansion(work, n) ==
    IF n = 0 \/ work = <<>> THEN <<>>
    ELSE LET line == Head(work)
             cmd == FromGcode(line.words).cmd
         IN <<line.file_line>>
            \o Expansion(IF IsCall(line)
                         THEN Passes(program.sub_programs[Val(cmd.global)[2]].code,
                                     Val(cmd.p) + 1) \o Tail(work)
                         ELSE Tail(work),
                         n - 1)

Yielded == [k \in DOMAIN trace |-> trace[k].line]

\* What has been yielded is the expansion of the root program, and the
\* executor returns None at the end of the expansion only.
FollowsExpansion ==
    /\ Yielded = Expansion(Root, Len(trace))
    /\ pc = "finalize" => Len(Expansion(Root, Len(trace) + 1)) = Len(trace)

\* An M17 line has been yielded as an error item.
ReturnRefused ==
    \E k \in DOMAIN trace :
       /\ trace[k].err # Ok
       /\ \E i \in DOMAIN file[trace[k].line][2] : file[trace[k].line][2][i] = <<"M", 17>>

\* C1: a call line L n P k of a subprogram n of the catalog makes the
\* executor yield the body of the subprogram k+1 times in succession, each
\* pass ending with its M17, before any further line of the calling body.
CallRepeatsBody == Started => FollowsExpansion

\* The same, as long as no M17 line is yielded as an error item.
CallRepeatsBodyUnlessReturnRefused == (Started /\ ~ReturnRefused) => FollowsExpansion

\* Subprogram 7, accepted with a line of N and Comment words after its M17,
\* is called with P1: its M17 is refused and the executor returns None after
\* three items, the main program's M2 never yielded.
CallRepeatsBodyWitness ==
    /\ pc = "finalize"
    /\ file = << <<"MainProgram", 1>>,
                 <<"Code", << <<"L", 7>>, <<"P", 1>> >> >>,
                 <<"Code", << <<"M", 2>> >> >>,
                 <<"SubProgram", 7>>,
                 <<"Code", << <<"M", 17>> >> >>,
                 <<"Code", << <<"N", 1>>, <<"Comment", "a">> >> >> >>
    /\ trace = << [line |-> 2, err |-> Ok],
                  [line |-> 5, err |-> "Subroutine return (M17) is not the last statement"],
                  [line |-> 6, err |-> Ok] >>

\* Calls nested two deep run to the end: L7 P1 of a body that calls L8 P2
\* yields twelve items without an error.
NestedCallsWitness ==
    /\ pc = "finalize"
    /\ Len(trace) = 12
    /\ \A k \in DOMAIN trace : trace[k].err = Ok

\* The executor is between two calls of next.
Iterating == pc = "next"

\* The call lines exec is tried with in every state: subprograms 7, 8 and
\* 9, with and without P.
CallProbes ==
    { [file_line |-> 1, words |-> w] :
        w \in { << <<"L", n>> >> : n \in {7, 8, 9} }
              \cup { << <<"L", n>>, <<"P", c>> >> : n \in {7, 8, 9}, c \in {0, 2} }
              \cup { << <<"P", 1>>, <<"N", 1>>, <<"L", 7>> >> } }

\* The value of the word of letter l in a line, if it has one
WordOf(line, l) ==
    IF \E k \in DOMAIN line.words : line.words[k][1] = l
    THEN Some(line.words[CHOOSE k \in DOMAIN line.words : line.words[k][1] = l][2])
    ELSE None

\* The code lines of subprogram n are the lines of its block in the file,
\* in their order.
IsBodyOf(code, n) ==
    /\ Len(code) = Cardinality(BlockLines("SubProgram", n))
    /\ \A k \in DOMAIN code :
          /\ code[k].file_line \in BlockLines("SubProgram", n)
          /\ code[k].words = file[code[k].file_line][2]
          /\ \A h \in 1..(k - 1) : code[h].file_line < code[k].file_line

\* C18: exec on a call line L n yields `Subroutine Ln not found` when
\* there is no subprogram n, with or without P; `Repeats count for
\* subroutine Ln not defined` when there is one and the line has no P; in
\* both cases it leaves the stack as it is; otherwise it pushes one frame
\* over the whole body of n with the repeats of P and yields the command.
CallRule ==
    Iterating => \A line \in CallProbes : \A r \in {Exec(stack, program.sub_programs, line)} :
        LET n == Val(WordOf(line, "L"))
            P == WordOf(line, "P")
        IN IF BlockLines("SubProgram", n) = {}
           THEN r.err = "Subroutine L" \o ToString(n) \o " not found" /\ r.stack = stack
           ELSE IF IsNone(P)
           THEN /\ r.err = "Repeats count for subroutine L" \o ToString(n) \o " not defined"
                /\ r.stack = stack
           ELSE /\ r.err = Ok
                /\ r.cmd.global = Some(<<"CallSub", n>>) /\ r.cmd.p = P
                /\ Len(r.stack) = Len(stack) + 1
                /\ SubSeq(r.stack, 1, Len(stack)) = stack
                /\ r.stack[Len(r.stack)].repeats = Val(P)
                /\ IsBodyOf(r.stack[Len(r.stack)].code, n)
                /\ r.stack[Len(r.stack)].full_code = r.stack[Len(r.stack)].code

\* Inside subprogram 7 a call of the absent subprogram 8 has been refused,
\* a call of 8 without P is refused in the same way, and a call of 7 with P
\* pushes a third frame.
CallRuleWitness ==
    /\ Iterating
    /\ Len(stack) = 2
    /\ BlockLines("SubProgram", 8) = {}
    /\ trace # <<>>
    /\ trace[Len(trace)].err = "Subroutine L8 not found"
    /\ \E line \in CallProbes :
          /\ WordOf(line, "L") = Some(8) /\ WordOf(line, "P") = None
          /\ Exec(stack, program.sub_programs, line).err = "Subroutine L8 not found"
    /\ \E line \in CallProbes :
          /\ WordOf(line, "L") = Some(7)
          /\ Len(Exec(stack, program.sub_programs, line).stack) = 3

\* The line next is about to take holds the word M m.
NextLineIs(m) ==
    /\ Iterating
    /\ stack[Len(stack)].code # <<>>
    /\ WordOf(Head(stack[Len(stack)].code), "M") = Some(m)

\* The stack once next has taken the first line of the top frame
Taken == [stack EXCEPT ![Len(stack)].code = Tail(@)]

\* C19: on an M17 line the executor yields `Subroutine return (M17)
\* without subroutine call` when the stack holds the root frame only;
\* `Subroutine return (M17) is not the last statement` when the top frame
\* has a line left after the M17, whatever its words; in both cases no frame
\* is popped; otherwise the top frame is popped and, when its repeats are
\* above 0, a frame over its whole body with one repeat less is pushed.
ReturnRule ==
    NextLineIs(17) => \A r \in {IteratorNext(stack, program.sub_programs)} :
        LET top == stack[Len(stack)]
            below == SubSeq(stack, 1, Len(stack) - 1)
        IN /\ IsSome(r.item)
           /\ Val(r.item).line = Head(top.code).file_line
           /\ IF Len(stack) = 1
              THEN /\ Val(r.item).err = "Subroutine return (M17) without subroutine call"
                   /\ r.stack = Taken
              ELSE IF Tail(top.code) # <<>>
              THEN /\ Val(r.item).err = "Subroutine return (M17) is not the last statement"
                   /\ r.stack = Taken
              ELSE /\ Val(r.item).err = Ok
                   /\ Val(r.item).cmd.global = Some(ReturnSub)
                   /\ r.stack = IF top.repeats > 0
                                THEN Append(below, [repeats |-> top.repeats - 1,
                                                    code |-> top.full_code,
                                                    full_code |-> top.full_code])
                                ELSE below

\* An M17 of subprogram 7 has been refused because a line of N and Comment
\* words is left after it, and the frame is still there.
ReturnRuleWitness ==
    /\ Iterating
    /\ Len(stack) = 2
    /\ trace # <<>>
    /\ trace[Len(trace)].err = "Subroutine return (M17) is not the last statement"
    /\ Len(stack[2].code) = 1
    /\ stack[2].code[1].words = << <<"N", 1>>, <<"Comment", "a">> >>

\* The M17 that ends a pass with repeats left is about to be taken.
ReturnRepeatsWitness ==
    /\ NextLineIs(17)
    /\ Len(stack) = 2 /\ stack[2].repeats = 2 /\ Tail(stack[2].code) = <<>>
    /\ Len(IteratorNext(stack, program.sub_programs).stack) = 2

\* C20: on an M2 line the executor yields an error when the stack is deeper
\* than the root frame or the root frame has a line left after the M2;
\* otherwise it yields the command and leaves the stack as it is, and the
\* next call of next returns None.
EndRule ==
    NextLineIs(2) => \A r \in {IteratorNext(stack, program.sub_programs)} :
        /\ IsSome(r.item)
        /\ r.stack = Taken
        /\ IF Len(stack) > 1
           THEN Val(r.item).err = "Program end (M2) in a subroutine"
           ELSE IF Tail(stack[1].code) # <<>>
           THEN Val(r.item).err = "Program end (M2) is not the last statement"
           ELSE /\ Val(r.item).err = Ok
                /\ Val(r.item).cmd.global = Some(EndProgram)
                /\ IteratorNext(r.stack, program.sub_programs).item = None
                /\ IteratorNext(r.stack, program.sub_programs).stack = r.stack

\* The last line of the main program, an M2, has been yielded after a call
\* of subprogram 7, and the call of next after it has returned None.
EndRuleWitness ==
    /\ pc = "finalize"
    /\ item = None
    /\ Len(stack) = 1 /\ stack[1].code = <<>>
    /\ Len(trace) >= 3
    /\ trace[Len(trace)].err = Ok
    /\ file[trace[Len(trace)].line][2] = << <<"M", 2>> >>

\* An M2 inside subprogram 7 has been refused.
EndInSubroutineWitness ==
    /\ Iterating
    /\ Len(stack) = 2
    /\ trace # <<>>
    /\ trace[Len(trace)].err = "Program end (M2) in a subroutine"

\* next has returned None.
Ended == pc = "finalize" /\ item = None

\* C21: next returns None only when no frame of the stack has a line left.
EndsWhenAllFramesExhausted ==
    Ended => \A k \in DOMAIN stack : stack[k].code = <<>>

\* next returns None exactly when the top frame has no line left, and a
\* frame below it has a line left then only after an error item.
EndsWhenTopFrameExhausted ==
    /\ Ended => stack[Len(stack)].code = <<>>
    /\ (Ended /\ \E k \in DOMAIN stack : stack[k].code # <<>>)
           => \E k \in DOMAIN trace : trace[k].err # Ok
    /\ (Iterating /\ stack[Len(stack)].code = <<>>)
           => IteratorNext(stack, program.sub_programs).item = None

\* next has returned None in subprogram 7, whose M17 was refused, while the
\* root frame still holds the M2 of the main program.
EndsInSubroutineWitness ==
    /\ Ended
    /\ Len(stack) = 2
    /\ stack[2].code = <<>>
    /\ Len(stack[1].code) = 1
    /\ stack[1].code[1].words = << <<"M", 2>> >>
    /\ \E k \in DOMAIN trace :
          trace[k].err = "Subroutine return (M17) is not the last statement"

\* The lines L n exec is tried with in every state: the numbers about 80
\* and the greatest, alone, with P, and after a G1.
CycleProbes ==
    { [file_line |-> 1, words |-> w] :
        w \in { << <<"L", n>> >> : n \in {7, 79, 80, 81, 255} }
              \cup { << <<"L", n>>, <<"P", 0>> >> : n \in {7, 79, 80, 81, 255} }
              \cup { << <<"G", 1>>, <<"L", n>> >> : n \in {79, 80} } }

\* C31: a word L n with n >= 80 fills the movement slot with BuiltinCycle(n)
\* and leaves the global slot, so exec neither looks a subprogram up nor
\* pushes a frame, whether or not a subprogram n is in the catalog; a word
\* L n with n < 80 fills the global slot with CallSub(n), and exec looks the
\* subprogram up.
CycleRule ==
    Iterating => \A line \in CycleProbes :
        \A b \in {FromGcode(line.words)} :
        \A r \in {Exec(stack, program.sub_programs, line)} :
            LET n == Val(WordOf(line, "L"))
                first == WordOf(line, "G") = None
            IN IF n >= 80
               THEN /\ first => /\ b.err = Ok
                                /\ b.cmd.movement = Some(<<"BuiltinCycle", n>>)
                                /\ b.cmd.global = None
                    /\ ~first => b.err # Ok
                    /\ r.err = b.err
                    /\ r.stack = stack
               ELSE /\ b.err = Ok
                    /\ b.cmd.global = Some(<<"CallSub", n>>)
                    /\ first => b.cmd.movement = None
                    /\ n \notin DOMAIN program.sub_programs
                          => r.err = "Subroutine L" \o ToString(n) \o " not found"
                    /\ (n \in DOMAIN program.sub_programs /\ WordOf(line, "P") # None)
                          => Len(r.stack) = Len(stack) + 1

\* With a subprogram 80 in the catalog the line L80 P0 of the main program
\* has been yielded without an error and without a frame pushed, and the
\* line L7 P0 tried there pushes one.
CycleRuleWitness ==
    /\ Iterating
    /\ 80 \in DOMAIN program.sub_programs
    /\ Len(stack) = 1
    /\ trace # <<>>
    /\ trace[Len(trace)].err = Ok
    /\ file[trace[Len(trace)].line] = <<"Code", << <<"L", 80>>, <<"P", 0>> >> >>
    /\ \E line \in CycleProbes :
          /\ line.words = << <<"L", 7>>, <<"P", 0>> >>
          /\ Len(Exec(stack, program.sub_programs, line).stack) = 2

\* The executor has been made, and next may or may not have ended.
Executing == pc \in {"next", "finalize"}

\* The passes still to come of every subprogram call among the first k
\* items that has been entered and not finally returned from, the outermost
\* first: a call line yielded without an error enters a call with the passes
\* of its P, an M17 yielded without an error starts the next pass of the
\* innermost call or, when none is left, finally returns from it.
RECURSIVE OpenCalls(_)
OpenCalls(k) ==
    IF k = 0 THEN <<>>
    ELSE LET o == OpenCalls(k - 1)
             b == FromGcode(file[trace[k].line][2])
         IN IF trace[k].err # Ok \/ IsNone(b.cmd.global) \/ b.cmd.global = Some(EndProgram)
            THEN o
            ELSE IF b.cmd.global = Some(ReturnSub)
            THEN IF o = <<>> THEN o
                 ELSE IF o[Len(o)] > 0 THEN [o EXCEPT ![Len(o)] = @ - 1]
                 ELSE SubSeq(o, 1, Len(o) - 1)
            ELSE Append(o, Val(b.cmd.p))

IsSuffix(s, t) == Len(s) <= Len(t) /\ s = SubSeq(t, Len(t) - Len(s) + 1, Len(t))

\* C35: in every state of the executor the stack is not empty; its bottom
\* frame is the frame of the selected main program, with repeats 0; the
\* frames above it are those of the subprogram calls entered and not finally
\* returned from, one each, whatever the number of passes made; and a call
\* of next pops at most the top frame, never the bottom one, and leaves the
\* depth as it is when an M17 starts another pass.
StackShape ==
    Executing =>
        /\ stack # <<>>
        /\ stack[1].repeats = 0
        /\ stack[1].full_code = Root
        /\ IsSuffix(stack[1].code, Root)
        /\ Len(stack) = 1 + Len(OpenCalls(Len(trace)))
        /\ \A k \in 2..Len(stack) : stack[k].repeats = OpenCalls(Len(trace))[k - 1]
        /\ \A r \in {IteratorNext(stack, program.sub_programs)} :
              /\ r.stack # <<>>
              /\ Len(r.stack) \in {Len(stack) - 1, Len(stack), Len(stack) + 1}
              /\ r.stack[1] = [stack[1] EXCEPT !.code = r.stack[1].code]
              /\ (NextLineIs(17) /\ Val(r.item).err = Ok /\ stack[Len(stack)].repeats > 0)
                    => /\ Len(r.stack) = Len(stack)
                       /\ r.stack[Len(stack)]
                             = StackItem(stack[Len(stack)].full_code,
                                         stack[Len(stack)].repeats - 1)

\* In the last of the three passes of subprogram 8, called from subprogram 7:
\* three frames, and the call of 8 has no pass left.
StackShapeWitness ==
    /\ Executing
    /\ Len(stack) = 3
    /\ OpenCalls(Len(trace))[2] = 0
    /\ \E k \in DOMAIN trace :
          /\ file[trace[k].line] = <<"Code", << <<"L", 8>>, <<"P", 2>> >> >>
          /\ trace[k].err = Ok
          /\ Len(trace) >= k + 3

\* The subprograms of the catalog that the lines of subprogram m call: the
\* words L n with n < 80
CalledBy(m) ==
    LET code == program.sub_programs[m].code
    IN { n \in DOMAIN program.sub_programs :
           /\ ~IsBuiltin(n)
           /\ \E k \in DOMAIN code : \E i \in DOMAIN code[k].words :
                 code[k].words[i][1] = "L" /\ code[k].words[i][2] = n }

\* The subprograms called from those of S through at most d further calls
RECURSIVE CalledThrough(_, _)
CalledThrough(S, d) ==
    IF d = 0 THEN S
    ELSE CalledThrough(S \cup UNION {CalledBy(m) : m \in S}, d - 1)

\* No subprogram calls itself, directly or through other subprograms.
NonRecursive ==
    \A m \in DOMAIN program.sub_programs :
        m \notin CalledThrough(CalledBy(m), Cardinality(DOMAIN program.sub_programs))

\* C36: for a program the structurer has accepted, in which no subprogram
\* calls itself directly or through other subprograms, next called again and
\* again yields finitely many items and then returns None.
Terminates == (pc = "next" /\ NonRecursive) ~> Ended

\* next has returned None after the twelve items of a program whose
\* subprogram 7 is called for two passes and calls subprogram 8 for three.
TerminatesWitness ==
    /\ Ended
    /\ NonRecursive
    /\ Len(trace) = 12
    /\ CalledBy(7) = {8}

\* Subprogram 7 calls itself, and next has yielded MaxYield items without
\* an error.
RecursionRunsOnWitness ==
    /\ pc = "next"
    /\ 7 \in CalledBy(7)
    /\ Len(trace) = MaxYield
    /\ \A k \in DOMAIN trace : trace[k].err = Ok

(***************************************************************************)
(* Properties of the run.                                                  *)
(***************************************************************************)
\* The run has failed in the loader on a line, in the structurer, in the
\* selection of the main program, in the executor or in the machine.
FailedInPipeline ==
    /\ IsSome(failure)
    /\ pc \in {"load", "structure", "select", "next", "simulate"}
    /\ text # Unreadable

\* The word an error of the executor is about.
OffendingWord(error) ==
    CASE error = "Subroutine L7 not found" -> <<"L", 7>>
      [] error \in {"Subroutine return (M17) without subroutine call",
                    "Subroutine return (M17) is not the last statement"} -> <<"M", 17>>
      [] error \in {"Program end (M2) in a subroutine",
                    "Program end (M2) is not the last statement"} -> <<"M", 2>>

\* Line k of the file is where the error of the failed stage arose: the
\* first line the loader could not read or parse; the first code line under
\* no header, or a header of the block that does not end with its
\* terminator; the code line the executor yielded last, holding the word its
\* error is about; the code line whose words are the command the machine
\* refused.
OffendingLine(k) ==
    LET error == Val(failure).error
    IN CASE pc = "load" ->
              /\ k \in DOMAIN text
              /\ text[k][1] \in {"ParseError", "IoError"}
              /\ \A q \in 1..(k - 1) : text[q][1] \notin {"ParseError", "IoError"}
         [] pc = "structure" ->
              /\ k \in DOMAIN file
              /\ IF error = "Code line with no program"
                 THEN /\ file[k][1] = "Code"
                      /\ \A q \in 1..(k - 1) : file[q][1] = "Empty"
                 ELSE /\ file[k][1] \in {"MainProgram", "SubProgram"}
                      /\ error = TerminatorMessage(file[k][1], file[k][2])
                      /\ ~EndsWithTerminator(file[k][1], file[k][2])
         [] pc = "next" ->
              /\ k \in DOMAIN file
              /\ file[k][1] = "Code"
              /\ trace[Len(trace)].line = k
              /\ \E i \in DOMAIN file[k][2] : file[k][2][i] = OffendingWord(error)
         [] pc = "simulate" ->
              /\ k \in DOMAIN file
              /\ file[k] = <<"Code", Val(item).cmd.raw>>
              /\ trace[Len(trace)].line = k
         [] OTHER -> FALSE

\* C10 as stated: every error of the loader's lines, the structurer, the
\* executor, the selection of the main program and the machine carries a
\* file line, that of the offending statement.
EveryErrorCarriesLine ==
    FailedInPipeline =>
        /\ IsSome(Val(failure).line)
        /\ pc # "select" => OffendingLine(Val(Val(failure).line))

\* C10: every error of the loader's lines, the structurer, the executor and
\* the machine carries the file line where it arose (for a block that does
\* not end with its terminator, the header line recorded for the block); the
\* error of the selection of the main program carries no line.
ErrorsCarryLineButSelection ==
    FailedInPipeline =>
        IF pc = "select" THEN Val(failure).line = None
        ELSE /\ IsSome(Val(failure).line)
             /\ OffendingLine(Val(Val(failure).line))

\* A text that holds a subprogram only is loaded and structured, and the run
\* fails with `No main programs found` and no line.
SelectionErrorWitness ==
    /\ pc = "select"
    /\ text = << <<"SubProgram", 7>>, <<"Code", << <<"M", 17>> >> >> >>
    /\ failure = Some([error |-> "No main programs found", line |-> None])

\* C15: the process exits with code 0 when the run succeeds and with
\* another code when the run returns an error.
ExitCodeTellsFailure ==
    IsSome(exited) => (Val(exited).code = 0 <=> failure = None)

\* The process exits with code 0 in every case, and what it has printed is
\* the error of the run.
ExitCodeIsZero ==
    IsSome(exited) => Val(exited).code = 0 /\ Val(exited).printed = failure

\* The run has failed in the simulator and the process has exited with 0.
FailureExitsZeroWitness ==
    /\ IsSome(exited) /\ Val(exited).code = 0
    /\ pc = "simulate" /\ IsSome(failure)

\* The file has been loaded.
Loaded == pc \notin {"idle", "load"}

\* A block of the file does not end with its terminator.
BadBlocks == { b \in BlocksOfFile : ~EndsWithTerminator(b[1], b[2]) }

\* C24: when a block of the loaded file breaks its terminator rule, be it a
\* subprogram that is never called or a main program that is not selected,
\* the run stops in the structurer with the structurer's error, no item is
\* asked of the executor and the machine is given no command.
StructuredBeforeExecuted ==
    (Loaded /\ BadBlocks # {}) =>
        /\ pc = "structure"
        /\ stack = <<>> /\ item = None /\ trace = <<>>
        /\ mach = DefaultMachine(TRUE)
        /\ IsSome(failure) =>
              \/ /\ ~NoOrphanLine
                 /\ Val(failure).error = "Code line with no program"
              \/ \E b \in BadBlocks : Val(failure).error = TerminatorMessage(b[1], b[2])
        /\ IsSome(exited) => IsSome(failure) /\ Val(exited).printed = failure

\* Main program 1 is a first move and M2; subprogram 7, never called, does
\* not end with M17: the run has failed with the error of subprogram 7 and
\* the machine has not moved.
StructuredBeforeExecutedWitness ==
    /\ Loaded
    /\ Len(file) = 5
    /\ file[1] = <<"MainProgram", 1>>
    /\ file[2] = <<"Code", << <<"G", 0>>, <<"Z", SafeZ>> >> >>
    /\ file[3] = <<"Code", << <<"M", 2>> >> >>
    /\ file[4] = <<"SubProgram", 7>>
    /\ failure = Some([error |-> "Subprogram #7 does not end with M17", line |-> Some(4)])
    /\ mach.z = None
    /\ IsSome(exited)

\* Main program 2, which is not the one selected, does not end with M2.
UnselectedMainRefusedWitness ==
    /\ Loaded
    /\ Len(file) = 5
    /\ file[1] = <<"MainProgram", 1>>
    /\ file[2] = <<"Code", << <<"G", 0>>, <<"Z", SafeZ>> >> >>
    /\ file[3] = <<"Code", << <<"M", 2>> >> >>
    /\ file[4] = <<"MainProgram", 2>>
    /\ failure = Some([error |-> "Main program #2 does not end with M2", line |-> Some(4)])
    /\ mach.z = None

\* The machine and the renderer after the commands of the first k items of
\* the trace have been executed in their order
RECURSIVE Replay(_)
Replay(k) ==
    IF k = 0 THEN [self |-> DefaultMachine(TRUE), calls |-> <<>>, ok |-> TRUE]
    ELSE LET p == Replay(k - 1)
             r == ExecuteCommand(p.self, FromGcode(file[trace[k].line][2]).cmd)
         IN [self |-> r.self, calls |-> p.calls \o r.calls, ok |-> p.ok /\ r.err = Ok]

\* The items yielded before the last one are commands, not errors.
EarlierItemsOk == \A k \in 1..(Len(trace) - 1) : trace[k].err = Ok

\* C25: every yielded command is executed by the machine before the next
\* item is asked of the executor; so the error of the run is that of the
\* first command to fail in the order of execution, whatever the lines not
\* yet asked for would give, and the commands before it have been executed
\* and drawn.
LockStep ==
    /\ (pc = "next" /\ failure = None) =>
          Replay(Len(trace)) = [self |-> mach, calls |-> drawn, ok |-> TRUE]
    /\ (pc = "simulate" /\ failure = None) =>
          /\ IsSome(item) /\ Val(item).err = Ok
          /\ Val(item).line = trace[Len(trace)].line
          /\ Replay(Len(trace) - 1) = [self |-> mach, calls |-> drawn, ok |-> TRUE]
    /\ (pc = "simulate" /\ IsSome(failure)) =>
          /\ EarlierItemsOk
          /\ Replay(Len(trace) - 1).ok
          /\ Replay(Len(trace)) = [self |-> mach, calls |-> drawn, ok |-> FALSE]
          /\ Val(failure).line = Some(trace[Len(trace)].line)
          /\ Val(failure).error
                = ExecuteCommand(Replay(Len(trace) - 1).self, Val(item).cmd).err
    /\ (pc = "next" /\ IsSome(failure)) =>
          /\ EarlierItemsOk
          /\ Replay(Len(trace) - 1) = [self |-> mach, calls |-> drawn, ok |-> TRUE]
          /\ failure = Some([error |-> trace[Len(trace)].err,
                             line |-> Some(trace[Len(trace)].line)])

\* After a first move and a move that was drawn the machine has refused the
\* M3 of line 4; the call of the missing subprogram 7 in line 5 has not been
\* asked for.
LockStepWitness ==
    /\ pc = "simulate" /\ IsSome(failure)
    /\ Len(file) = 6
    /\ file[5] = <<"Code", << <<"L", 7>>, <<"P", 0>> >> >>
    /\ Val(failure).line = Some(4)
    /\ Len(trace) = 3
    /\ Len(drawn) = 1 /\ drawn[1].op = "line_to" /\ drawn[1].x = 1000
    /\ IteratorNext(stack, program.sub_programs).item
          = Some([line |-> 5, err |-> "Subroutine L7 not found",
                  cmd |-> FromGcode(file[5][2]).cmd])

\* The structurer, the executor and the machine have finished the file
\* without an error.
Finished == pc \in {"finalize", "done"}

\* C33: when the pipeline has finished a file without an error, the last
\* command executed is the last line of the root program, whose executable
\* words are the word M2 alone, and the machine has the spindle off, the
\* coolant off and z undefined or not below the safe height.
CleanFinish ==
    Finished =>
        /\ trace # <<>>
        /\ \A k \in DOMAIN trace : trace[k].err = Ok
        /\ trace[Len(trace)].line = Root[Len(Root)].file_line
        /\ ExecutableCode(Root[Len(Root)]) = << <<"M", 2>> >>
        /\ ~mach.spindle_on /\ ~mach.water_on
        /\ Absent(mach.z) \/ Val(mach.z) >= SafeZ

\* A run has finished after two moves that defined the position and a call
\* of subprogram 7.
CleanFinishWitness ==
    /\ Finished
    /\ PositionDefined
    /\ Len(trace) = 5
    /\ DOMAIN program.sub_programs = {7}

\* A run has finished on the line N1 M2 (a) after a first move.
NumberedEndWitness ==
    /\ Finished
    /\ file[Len(file)] = <<"Code", << <<"N", 1>>, <<"M", 2>>, <<"Comment", "a">> >> >>
    /\ Present(mach.z)

\* The machine has refused the M2 of a program that went below the safe
\* height.
LowEndRefusedWitness ==
    /\ IsSome(failure)
    /\ Val(failure).error = "Ending program with too low Z"

\* The executor has refused the M2 that a line with no executable word
\* follows.
FollowedEndRefusedWitness ==
    /\ IsSome(failure)
    /\ Val(failure).error = "Program end (M2) is not the last statement"
    /\ ExecutableCode([words |-> file[Len(file)][2]]) = <<>>

(***************************************************************************)
(* Properties of the Micrometer conversions.                               *)
(***************************************************************************)
Converted == conv.pc \in {"format", "reparse", "done"}
Written == conv.pc \in {"reparse", "done"}

AllDigits(s) == \A k \in 1..Len(s) : IsDigit(s[k])
Unsigned(s) == IF s # <<>> /\ Head(s) \in {"+", "-"} THEN Tail(s) ELSE s
\* The place of the dot in an unsigned text, or one past the end
DotAt(u) == IF \E k \in 1..Len(u) : u[k] = "."
            THEN CHOOSE k \in 1..Len(u) : u[k] = "." /\ \A h \in 1..(k - 1) : u[h] # "."
            ELSE Len(u) + 1
Whole(s) == SubSeq(Unsigned(s), 1, DotAt(Unsigned(s)) - 1)
Fraction(s) == SubSeq(Unsigned(s), DotAt(Unsigned(s)) + 1, Len(Unsigned(s)))

\* [+-]?(d+(.d*)?|.d+)
InGrammar(s) ==
    /\ AllDigits(Whole(s)) /\ AllDigits(Fraction(s))
    /\ Whole(s) # <<>> \/ Fraction(s) # <<>>

\* sign * (integer part * 1000 + the fraction cut or padded to three digits)
GrammarValue(s) ==
    LET f == Fraction(s)
        three == SubSeq(f \o <<"0", "0", "0">>, 1, 3)
        size == DigitsValue(Whole(s)) * 1000 + DigitsValue(three)
    IN  IF s # <<>> /\ Head(s) = "-" THEN -size ELSE size

\* C11: what Display writes for a value has a sign prefix when the value is
\* negative, and parsing it gives the value back.
FormatParseRoundTrip ==
    /\ Written /\ Val(conv.um) < 0 => Head(conv.shown) = "-"
    /\ conv.pc = "done" => conv.back = conv.um

\* Outside the values strictly between -1.000 mm and 0 the sign is written
\* and parsing gives the value back.
RoundTripButSmallNegative ==
    Written /\ ~(Val(conv.um) > -1000 /\ Val(conv.um) < 0)
        => /\ Val(conv.um) < 0 => Head(conv.shown) = "-"
           /\ conv.pc = "done" => conv.back = conv.um

\* The text -.42 is parsed to -420, written as 0.420 and parsed back to 420.
FormatDropsSignWitness ==
    /\ conv.pc = "done"
    /\ conv.input = <<"-", ".", "4", "2">>
    /\ conv.um = Some(-420)
    /\ conv.shown = <<"0", ".", "4", "2", "0">>
    /\ conv.back = Some(420)

\* C12: a text of the grammar is parsed to its end, and to the value the
\* grammar gives it.
ParseConsumesGrammar ==
    conv.pc \notin {"idle", "parse"} /\ InGrammar(conv.input)
        => /\ Converted
           /\ conv.rest = <<>>
           /\ conv.um = Some(GrammarValue(conv.input))

\* Every text of the grammar is parsed to the value the grammar gives it,
\* and to its end unless it ends with the dot.
ParseValueOfGrammar ==
    conv.pc \notin {"idle", "parse"} /\ InGrammar(conv.input)
        => /\ Converted
           /\ conv.um = Some(GrammarValue(conv.input))
           /\ conv.rest = IF Fraction(conv.input) = <<>> /\ DotAt(Unsigned(conv.input)) <= Len(Unsigned(conv.input))
                          THEN <<".">> ELSE <<>>

\* The text 1. is parsed to 1000 and the dot is left.
TrailingDotLeftWitness ==
    /\ Converted
    /\ conv.input = <<"1", ".">>
    /\ conv.um = Some(1000)
    /\ conv.rest = <<".">>

=============================================================================
